---- MODULE Spec2Model ----
(***************************************************************************)
(* A model of the charybdis query layer: the query builder and its         *)
(* executor strategies (charybdis/src/query.rs), the typed finder          *)
(* operations (charybdis/src/operations/find.rs), the collection-mutation  *)
(* code generator (charybdis-macros/src/native/collection.rs) and the      *)
(* live schema introspector (charybdis-parser/src/schema/db_schema.rs).    *)
(*                                                                         *)
(* The database session is the environment: every call made to it is       *)
(* appended to `calls`, and its reply is a nondeterministic choice among   *)
(* the replies the driver can give.                                        *)
(***************************************************************************)
EXTENDS Integers, Sequences, FiniteSets, TLC

VARIABLES
    pc,        \* position of the calling task
    model,     \* the model instance the caller holds (&self / &mut M)
    builder,   \* the unexecuted builder the caller holds, or NoBuilder
    applied,   \* number of setter calls made on the builder held
    calls,     \* every call made to the session so far, in order
    steps,     \* steps of CharybdisCbQuery::execute, in order
    result,    \* what the last execute returned to the caller
    data,      \* the server's (unchanging) result set of the finder query
    pageCfg,   \* page size the caller configures on each builder (0: none)
    paged,     \* the caller's loop over ModelPaged executions
    stream,    \* the CharybdisModelStream being drained
    genIn,     \* input of the code generator: macro args and field set
    genOut,    \* token stream emitted by each generator function
    catalog,   \* system_schema of the keyspace as it is on the server now
    seen,      \* the states the catalog had while DbSchema::new was running
    sch,       \* the task running DbSchema::new: position and the DbSchema
    reads      \* every catalog read issued by DbSchema::new, in order

vars == <<pc, model, builder, applied, calls, steps, result,
          data, pageCfg, paged, stream, genIn, genOut,
          catalog, seen, sch, reads>>

qvars == <<pc, model, builder, applied, calls, steps, result>>
pvars == <<data, pageCfg, paged, stream>>
gvars == <<genIn, genOut>>
svars == <<catalog, seen, sch, reads>>

(* Every record constructor of this module lists its fields in the order in
   which the names first occur in the module. TLC keeps records sorted in
   that order, so a constructor written in it is never permuted while
   several workers evaluate it. *)

----------------------------------------------------------------------------
(* Bounds of the model *)

MaxRows == 3          \* rows in a result set
MaxPageSize == 2      \* largest page size a caller configures
MaxSetterCalls == 2   \* setters chained on one builder
MaxFields == 3        \* declared fields of a model given to the generator
MaxUdtFields == 2     \* length of a type's field_names / field_types array
MaxCatalogChanges == 1  \* DDL statements of other clients during one call

----------------------------------------------------------------------------
(* Values *)

RowVals == {"a", "b", "bad"}            \* raw rows; "bad" does not decode
RowSeqs(n) == UNION {[1..k -> RowVals] : k \in 0..n}

Ids == {"k1", "k2"}
Models == [id : Ids, payload : {"p0", "p1"}]

\* BaseModel::primary_key_values / partition_key_values (accessors of the
\* generated BaseModel impl).
primary_key_values(m) == <<"pk", m.id>>
partition_key_values(m) == <<"part", m.id>>

PrimaryKeys == {primary_key_values(m) : m \in Models}
PartitionKeys == {partition_key_values(m) : m \in Models}
UserValues == {<<"u1">>}

Queries == {"SELECT_CUSTOM"}
FIND_BY_PRIMARY_KEY_QUERY == "FIND_BY_PRIMARY_KEY_QUERY"
FIND_BY_PARTITION_KEY_QUERY == "FIND_BY_PARTITION_KEY_QUERY"
FIND_FIRST_BY_PARTITION_KEY_QUERY == "FIND_FIRST_BY_PARTITION_KEY_QUERY"

\* QueryValue<'a, Val, M>
Owned(v) == [tag |-> "Owned", val |-> v]
PrimaryKey(v) == [tag |-> "PrimaryKey", val |-> v]
Model(m) == [tag |-> "Model", val |-> <<"model", m.id, m.payload>>]
Empty == [tag |-> "Empty", val |-> <<>>]
QueryValue_default == Empty

\* scylla PagingState: the start of the result set, or an opaque resume
\* position handed out by the server.
PagingState_start == [tag |-> "start", pos |-> 0]
PagingToken(p) == [tag |-> "state", pos |-> p]
PagingStates == {PagingState_start, PagingToken(1)}

\* PagingStateResponse
NoMorePages == [tag |-> "NoMorePages", pos |-> 0]
HasMorePages(p) == [tag |-> "HasMorePages", pos |-> p]

\* scylla Query::new: the statement text with every option at its default
\* (page_size 0 stands for "not configured").
Query_new(text) ==
    [contents |-> text, page_size |-> 0, consistency |-> "Unset",
     serial_consistency |-> "Unset", is_idempotent |-> FALSE,
     tracing |-> FALSE, timestamp |-> "None", request_timeout |-> "None",
     retry_policy |-> "None", history_listener |-> "None",
     profile_handle |-> "None"]

----------------------------------------------------------------------------
(* CharybdisQuery: constructor and setters (query.rs) *)

CharybdisQuery_new(qe, query, values) ==
    [qe |-> qe, values |-> values, inner |-> Query_new(query),
     query_string |-> query, paging_state |-> PagingState_start]

values(q, v) == [q EXCEPT !.values = v]

\* page_size rebuilding the paging cursor along with the page size.
page_size_resets_cursor(q, n) ==
    [q EXCEPT !.inner.page_size = n, !.paging_state = PagingState_start]

page_size(q, n) == [q EXCEPT !.inner.page_size = n]
consistency(q, c) == [q EXCEPT !.inner.consistency = c]
serial_consistency(q, c) == [q EXCEPT !.inner.serial_consistency = c]
paging_state(q, ps) == [q EXCEPT !.paging_state = ps]
idempotent(q, b) == [q EXCEPT !.inner.is_idempotent = b]
trace(q, b) == [q EXCEPT !.inner.tracing = b]
timestamp(q, t) == [q EXCEPT !.inner.timestamp = t]
timeout(q, t) == [q EXCEPT !.inner.request_timeout = t]
retry_policy(q, r) == [q EXCEPT !.inner.retry_policy = r]
history_listener(q, h) == [q EXCEPT !.inner.history_listener = h]
remove_history_listener(q) == [q EXCEPT !.inner.history_listener = "None"]
profile_handle(q, p) == [q EXCEPT !.inner.profile_handle = p]

\* Argument domains of the setters
PageSizes == 1..MaxPageSize
Consistencies == {"One", "Quorum"}
SerialConsistencies == {"None", "Some_LocalSerial"}
Timestamps == {"None", "Some_ts"}
Timeouts == {"None", "Some_1s"}
RetryPolicies == {"None", "Some_default"}
HistoryListeners == {"listener_a", "listener_b"}
ProfileHandles == {"None", "Some_profile"}

----------------------------------------------------------------------------
(* Find: the typed finder operations (operations/find.rs) *)

find(query, v) == CharybdisQuery_new("ModelStream", query, Owned(v))

\* Find::find_paged dropping the paging state it is given
find_paged_from_start(query, v, ps) ==
    CharybdisQuery_new("ModelPaged", query, Owned(v))

find_paged(query, v, ps) ==
    paging_state(CharybdisQuery_new("ModelPaged", query, Owned(v)), ps)

find_first(query, v) == CharybdisQuery_new("ModelRow", query, Owned(v))

maybe_find_first(query, v) ==
    CharybdisQuery_new("OptionalModelRow", query, Owned(v))

find_by_primary_key_value(v) ==
    CharybdisQuery_new("ModelRow", FIND_BY_PRIMARY_KEY_QUERY, Owned(v))

maybe_find_by_primary_key_value(v) ==
    CharybdisQuery_new("OptionalModelRow", FIND_BY_PRIMARY_KEY_QUERY, Owned(v))

find_by_partition_key_value(v) ==
    CharybdisQuery_new("ModelStream", FIND_BY_PARTITION_KEY_QUERY, Owned(v))

find_first_by_partition_key_value(v) ==
    CharybdisQuery_new("ModelRow", FIND_FIRST_BY_PARTITION_KEY_QUERY, Owned(v))

\* find_by_partition_key_value_paged over the find-first query constant.
find_by_partition_key_value_paged_first(v) ==
    CharybdisQuery_new("ModelPaged", FIND_FIRST_BY_PARTITION_KEY_QUERY, Owned(v))

find_by_partition_key_value_paged(v) ==
    CharybdisQuery_new("ModelPaged", FIND_BY_PARTITION_KEY_QUERY, Owned(v))

find_by_primary_key(self) ==
    CharybdisQuery_new("ModelRow", FIND_BY_PRIMARY_KEY_QUERY,
                       Owned(primary_key_values(self)))

maybe_find_by_primary_key(self) ==
    CharybdisQuery_new("OptionalModelRow", FIND_BY_PRIMARY_KEY_QUERY,
                       Owned(primary_key_values(self)))

find_by_partition_key(self) ==
    CharybdisQuery_new("ModelStream", FIND_BY_PARTITION_KEY_QUERY,
                       Owned(partition_key_values(self)))

----------------------------------------------------------------------------
(* The session (scylla CachingSession): what is sent and what comes back *)

NoPaging == [tag |-> "none", pos |-> 0]

\* One entry of `calls`. Of the statement handed to the session the entry
\* keeps the text and the page size, the two options the replies depend on.
SessionCall(origin, method, q, ps, reply) ==
    [values |-> q.values, paging_state |-> ps, origin |-> origin,
     method |-> method, reply |-> reply,
     statement |-> [contents |-> q.inner.contents,
                    page_size |-> q.inner.page_size]]

\* Replies of the driver: a failure, a result that is not a row set, or a
\* row set together with the paging-state response of the page.
QueryFailed == [tag |-> "err", has_rows |-> FALSE, rows |-> <<>>,
                next |-> NoMorePages]
NotRows == [tag |-> "ok", has_rows |-> FALSE, rows |-> <<>>,
            next |-> NoMorePages]
RowSet(rows, next) == [tag |-> "ok", has_rows |-> TRUE, rows |-> rows,
                       next |-> next]

\* The row sets an arbitrary statement is answered with.
ReplyRows == {<<>>, <<"a">>, <<"bad">>, <<"a", "b">>, <<"bad", "a">>,
              <<"a", "bad">>}

UnpagedReplies ==
    {QueryFailed, NotRows} \cup {RowSet(r, NoMorePages) : r \in ReplyRows}

PageReplies ==
    {QueryFailed, NotRows}
        \cup {RowSet(r, NoMorePages) : r \in ReplyRows}
        \cup {RowSet(r, HasMorePages(Len(r))) : r \in ReplyRows}

MutationReplies == {QueryFailed, NotRows, RowSet(<<"a">>, NoMorePages)}

\* FromRow: decoding one raw row into the model type.
decodable(row) == row # "bad"
from_row(row) == [model |-> row]

\* QueryResult::first_row_typed (driver)
first_row_typed(reply) ==
    IF ~reply.has_rows THEN [v |-> <<>>, ok |-> FALSE, e |-> "RowsExpected"]
    ELSE IF reply.rows = <<>> THEN [v |-> <<>>, ok |-> FALSE,
                                    e |-> "RowsEmpty"]
    ELSE IF ~decodable(Head(reply.rows))
        THEN [v |-> <<>>, ok |-> FALSE, e |-> "FromRowError"]
    ELSE [v |-> <<from_row(Head(reply.rows))>>, ok |-> TRUE, e |-> ""]

\* QueryResult::maybe_first_row_typed (driver)
maybe_first_row_typed(reply) ==
    IF ~reply.has_rows THEN [v |-> <<>>, ok |-> FALSE, e |-> "RowsExpected"]
    ELSE IF reply.rows = <<>> THEN [v |-> <<>>, ok |-> TRUE, e |-> ""]
    ELSE IF ~decodable(Head(reply.rows))
        THEN [v |-> <<>>, ok |-> FALSE, e |-> "FromRowError"]
    ELSE [v |-> <<from_row(Head(reply.rows))>>, ok |-> TRUE, e |-> ""]

----------------------------------------------------------------------------
(* Results handed to the caller *)

NoResult == [tag |-> "none", qe |-> "", query_string |-> "", type |-> "",
             kind |-> "", value |-> <<>>, paging |-> NoMorePages]

\* Ok(value) of the executor strategy qe; value is a sequence: the model(s)
\* of the output, empty for an absent Option.
Ok(qe, value, paging) ==
    [tag |-> "Ok", qe |-> qe, query_string |-> "", type |-> "", kind |-> "",
     value |-> value, paging |-> paging]

\* Err(CharybdisError::<kind>(query_string, ..))
Err(qe, kind, query_string) ==
    [tag |-> "Err", qe |-> qe, query_string |-> query_string,
     type |-> "CharybdisError", kind |-> kind, value |-> <<>>,
     paging |-> NoMorePages]

----------------------------------------------------------------------------
(* CharybdisModelIterator and CharybdisModelStream: the typed row sequences
   an execution hands back, each with the query string attached to it *)

CharybdisModelIterator_from(rows) == [query_string |-> "", rows |-> rows]
Iterator_query_string(it, qs) == [it EXCEPT !.query_string = qs]

\* One item of a typed row sequence: the decoded model, or the decode
\* failure together with the query string attached to the sequence.
Item(row, qs) ==
    IF decodable(row)
        THEN [v |-> from_row(row), query_string |-> "", ok |-> TRUE]
        ELSE [v |-> [model |-> "FromRowError"], query_string |-> qs,
              ok |-> FALSE]

\* Iterator::next until exhaustion
Iterator_collect(it) ==
    [i \in 1..Len(it.rows) |-> Item(it.rows[i], it.query_string)]

NoStream == [values |-> Empty, query_string |-> "",
             statement |-> [contents |-> "", page_size |-> 0],
             next |-> NoMorePages, state |-> "none", buf |-> <<>>,
             yielded |-> <<>>, pages |-> <<>>]

\* CharybdisModelStream::from(rows): wraps the driver's row iterator, which
\* holds the first page and the paging state of the rest.
CharybdisModelStream_from(q, reply) ==
    [values |-> q.values, query_string |-> "",
     statement |-> [contents |-> q.inner.contents,
                    page_size |-> q.inner.page_size],
     next |-> reply.next, state |-> "open", buf |-> reply.rows,
     yielded |-> <<>>, pages |-> <<Len(reply.rows)>>]
Stream_query_string(st, qs) == [st EXCEPT !.query_string = qs]

----------------------------------------------------------------------------
(* QueryExecutor: one implementation per strategy (query.rs). Each takes the
   builder and the session's reply to the call it makes, and gives the
   calls made, the result handed to the caller and the stream created. *)

\* ModelRow::execute with the RowsEmpty arm of the error mapping left out.
ModelRow_execute_no_not_found(q, reply) ==
    LET call == SessionCall("query", "execute_unpaged", q, NoPaging, reply)
        row == first_row_typed(reply)
    IN  [calls |-> <<call>>,
         result |->
            IF reply.tag = "err"
                THEN Err("ModelRow", "QueryError", q.query_string)
            ELSE IF ~row.ok
                THEN Err("ModelRow", "FirstRowTypedError", q.query_string)
            ELSE Ok("ModelRow", row.v, NoMorePages),
         stream |-> NoStream]

ModelRow_execute(q, reply) ==
    LET call == SessionCall("query", "execute_unpaged", q, NoPaging, reply)
        row == first_row_typed(reply)
    IN  [calls |-> <<call>>,
         result |->
            IF reply.tag = "err"
                THEN Err("ModelRow", "QueryError", q.query_string)
            ELSE IF ~row.ok /\ row.e = "RowsEmpty"
                THEN Err("ModelRow", "NotFoundError", q.query_string)
            ELSE IF ~row.ok
                THEN Err("ModelRow", "FirstRowTypedError", q.query_string)
            ELSE Ok("ModelRow", row.v, NoMorePages),
         stream |-> NoStream]

OptionalModelRow_execute(q, reply) ==
    LET call == SessionCall("query", "execute_unpaged", q, NoPaging, reply)
        row == maybe_first_row_typed(reply)
    IN  [calls |-> <<call>>,
         result |->
            IF reply.tag = "err"
                THEN Err("OptionalModelRow", "QueryError", q.query_string)
            ELSE IF ~row.ok
                THEN Err("OptionalModelRow", "MaybeFirstRowTypedError",
                         q.query_string)
            ELSE Ok("OptionalModelRow", row.v, NoMorePages),
         stream |-> NoStream]

\* ModelStream::execute without stream.query_string(query.query_string).
ModelStream_execute_no_query_string(q, reply) ==
    LET call == SessionCall("query", "execute_iter", q, NoPaging, reply)
    IN  IF reply.tag = "err"
            THEN [calls |-> <<call>>,
                  result |-> Err("ModelStream", "QueryError", q.query_string),
                  stream |-> NoStream]
            ELSE [calls |-> <<call>>,
                  result |-> Ok("ModelStream", <<>>, NoMorePages),
                  stream |-> CharybdisModelStream_from(q, reply)]

ModelStream_execute(q, reply) ==
    LET call == SessionCall("query", "execute_iter", q, NoPaging, reply)
    IN  IF reply.tag = "err"
            THEN [calls |-> <<call>>,
                  result |-> Err("ModelStream", "QueryError", q.query_string),
                  stream |-> NoStream]
            ELSE [calls |-> <<call>>,
                  result |-> Ok("ModelStream", <<>>, NoMorePages),
                  stream |-> Stream_query_string(
                                 CharybdisModelStream_from(q, reply),
                                 q.query_string)]

\* ModelPaged::execute passing PagingState::start() instead of the
\* builder's cursor.
ModelPaged_execute_from_start(q, reply) ==
    LET call == SessionCall("query", "execute_single_page", q,
                            PagingState_start, reply)
    IN  [calls |-> <<call>>,
         result |->
            IF reply.tag = "err"
                THEN Err("ModelPaged", "QueryError", q.query_string)
            ELSE IF ~reply.has_rows
                THEN Err("ModelPaged", "RowsExpectedError", q.query_string)
            ELSE Ok("ModelPaged",
                    <<Iterator_query_string(
                          CharybdisModelIterator_from(reply.rows),
                          q.query_string)>>,
                    reply.next),
         stream |-> NoStream]

ModelPaged_execute(q, reply) ==
    LET call == SessionCall("query", "execute_single_page", q,
                            q.paging_state, reply)
    IN  [calls |-> <<call>>,
         result |->
            IF reply.tag = "err"
                THEN Err("ModelPaged", "QueryError", q.query_string)
            ELSE IF ~reply.has_rows
                THEN Err("ModelPaged", "RowsExpectedError", q.query_string)
            ELSE Ok("ModelPaged",
                    <<Iterator_query_string(
                          CharybdisModelIterator_from(reply.rows),
                          q.query_string)>>,
                    reply.next),
         stream |-> NoStream]

\* ModelMutation::execute issuing the statement a second time when the
\* first call fails.
ModelMutation_execute_retry(q, reply) ==
    LET call == SessionCall("query", "execute_unpaged", q, NoPaging, reply)
    IN  [calls |-> IF reply.tag = "err" THEN <<call, call>> ELSE <<call>>,
         result |->
            IF reply.tag = "err"
                THEN Err("ModelMutation", "QueryError", q.query_string)
                ELSE Ok("ModelMutation", <<"QueryResult">>, NoMorePages),
         stream |-> NoStream]

ModelMutation_execute(q, reply) ==
    LET call == SessionCall("query", "execute_unpaged", q, NoPaging, reply)
    IN  [calls |-> <<call>>,
         result |->
            IF reply.tag = "err"
                THEN Err("ModelMutation", "QueryError", q.query_string)
                ELSE Ok("ModelMutation", <<"QueryResult">>, NoMorePages),
         stream |-> NoStream]

\* CharybdisQuery::execute: dispatch on the executor strategy Qe.
CharybdisQuery_execute(q, reply) ==
    CASE q.qe = "ModelRow" -> ModelRow_execute(q, reply)
      [] q.qe = "OptionalModelRow" -> OptionalModelRow_execute(q, reply)
      [] q.qe = "ModelStream" -> ModelStream_execute(q, reply)
      [] q.qe = "ModelPaged" -> ModelPaged_execute(q, reply)
      [] q.qe = "ModelMutation" -> ModelMutation_execute(q, reply)

\* The replies the session can give to the call of each strategy.
Replies(qe) ==
    CASE qe \in {"ModelStream", "ModelPaged"} -> PageReplies
      [] qe = "ModelMutation" -> MutationReplies
      [] OTHER -> UnpagedReplies

----------------------------------------------------------------------------
(* CharybdisCbQuery: the callback-wrapped mutation (query.rs) *)

\* The builder the caller holds: a CharybdisQuery (kind "query", q is the
\* query itself) or a CharybdisCbQuery (kind "cb", q is its field `inner`,
\* cba its callback action; its `model` reference is the variable model).
NoBuilder == [q |-> CharybdisQuery_new("", "", Empty), kind |-> "none",
              cba |-> ""]
QueryBuilder(q) == [q |-> q, kind |-> "query", cba |-> ""]

CallbackActions == {"Insert", "Update", "Delete"}
MutationQuery(cba) ==
    CASE cba = "Insert" -> "INSERT_QUERY"
      [] cba = "Update" -> "UPDATE_QUERY"
      [] cba = "Delete" -> "DELETE_QUERY"

CharybdisCbQuery_new(query, cba) ==
    [q |-> CharybdisQuery_new("ModelMutation", query, QueryValue_default),
     kind |-> "cb", cba |-> cba]

\* delegate_inner_query_methods: self.inner = self.inner.$method(..)
delegate_inner_query_methods(cb, inner) == [cb EXCEPT !.q = inner]

\* CallbackAction::query_value: the values to bind, from the model as it is
\* when asked.
query_value(cba, m) ==
    IF cba = "Delete" THEN PrimaryKey(primary_key_values(m)) ELSE Model(m)

\* What a hook (before_execute / after_execute) can do: succeed or fail,
\* leave the model as it is or change it, and use the session itself.
HookOutcomes(m) ==
    [model : {m, [m EXCEPT !.payload = "p1"]}, ok : BOOLEAN, net : BOOLEAN]

HookCall(name) ==
    [values |-> Empty, paging_state |-> NoPaging, origin |-> name,
     method |-> "execute_unpaged", reply |-> NotRows,
     statement |-> [contents |-> "HOOK_QUERY", page_size |-> 0]]
HookCalls(name, h) == IF h.net THEN <<HookCall(name)>> ELSE <<>>

HookErr(name) ==
    [tag |-> "Err", qe |-> "ModelMutation", query_string |-> "",
     type |-> "M::Error", kind |-> name, value |-> <<>>,
     paging |-> NoMorePages]

\* From<CharybdisError> for M::Error, applied by `?`
M_Error_from(e) == [e EXCEPT !.type = "M::Error"]

Step(name, m, ok) == [model |-> m, ok |-> ok, step |-> name]

\* CharybdisCbQuery::execute without the `?` on before_execute: the write is
\* issued whatever the hook returned.
CharybdisCbQuery_execute_unchecked_before(cb, m, bh, reply, ah) ==
    LET qv == query_value(cb.cba, bh.model)
        res == CharybdisQuery_execute(values(cb.q, qv), reply)
        st == <<Step("before_execute", bh.model, bh.ok),
                Step("query_value", bh.model, TRUE),
                Step("execute", bh.model, res.result.tag = "Ok")>>
        cs == HookCalls("before_execute", bh) \o res.calls
    IN  IF ~bh.ok
        THEN [model |-> bh.model, calls |-> cs, steps |-> st,
              result |-> HookErr("before_execute")]
        ELSE IF res.result.tag = "Err"
        THEN [model |-> bh.model, calls |-> cs, steps |-> st,
              result |-> M_Error_from(res.result)]
        ELSE [model |-> ah.model,
              calls |-> cs \o HookCalls("after_execute", ah),
              steps |-> Append(st, Step("after_execute", ah.model, ah.ok)),
              result |-> IF ah.ok THEN res.result ELSE HookErr("after_execute")]

\* CharybdisCbQuery::execute without the `?` on after_execute: the hook's
\* failure is dropped and the write's result returned.
CharybdisCbQuery_execute_unchecked_after(cb, m, bh, reply, ah) ==
    LET qv == query_value(cb.cba, bh.model)
        res == CharybdisQuery_execute(values(cb.q, qv), reply)
        st == <<Step("before_execute", bh.model, bh.ok)>>
        wr == st \o <<Step("query_value", bh.model, TRUE),
                      Step("execute", bh.model, res.result.tag = "Ok")>>
        cs == HookCalls("before_execute", bh)
    IN  IF ~bh.ok
        THEN [model |-> bh.model, calls |-> cs, steps |-> st,
              result |-> HookErr("before_execute")]
        ELSE IF res.result.tag = "Err"
        THEN [model |-> bh.model, calls |-> cs \o res.calls, steps |-> wr,
              result |-> M_Error_from(res.result)]
        ELSE [model |-> ah.model,
              calls |-> cs \o res.calls \o HookCalls("after_execute", ah),
              steps |-> Append(wr, Step("after_execute", ah.model, ah.ok)),
              result |-> res.result]

\* CharybdisCbQuery::execute binding query_value of the model as it was
\* before the before_execute hook ran.
CharybdisCbQuery_execute_stale_values(cb, m, bh, reply, ah) ==
    LET qv == query_value(cb.cba, m)
        res == CharybdisQuery_execute(values(cb.q, qv), reply)
        st == <<Step("before_execute", bh.model, bh.ok)>>
        wr == st \o <<Step("query_value", bh.model, TRUE),
                      Step("execute", bh.model, res.result.tag = "Ok")>>
        cs == HookCalls("before_execute", bh)
    IN  IF ~bh.ok
        THEN [model |-> bh.model, calls |-> cs, steps |-> st,
              result |-> HookErr("before_execute")]
        ELSE IF res.result.tag = "Err"
        THEN [model |-> bh.model, calls |-> cs \o res.calls, steps |-> wr,
              result |-> M_Error_from(res.result)]
        ELSE [model |-> ah.model,
              calls |-> cs \o res.calls \o HookCalls("after_execute", ah),
              steps |-> Append(wr, Step("after_execute", ah.model, ah.ok)),
              result |-> IF ah.ok THEN res.result ELSE HookErr("after_execute")]

\* CharybdisCbQuery::execute without the `?` on the inner execute: the
\* after_execute hook runs whatever the write returned.
CharybdisCbQuery_execute_unchecked_write(cb, m, bh, reply, ah) ==
    LET qv == query_value(cb.cba, bh.model)
        res == CharybdisQuery_execute(values(cb.q, qv), reply)
        st == <<Step("before_execute", bh.model, bh.ok)>>
        wr == st \o <<Step("query_value", bh.model, TRUE),
                      Step("execute", bh.model, res.result.tag = "Ok")>>
        cs == HookCalls("before_execute", bh)
    IN  IF ~bh.ok
        THEN [model |-> bh.model, calls |-> cs, steps |-> st,
              result |-> HookErr("before_execute")]
        ELSE [model |-> ah.model,
              calls |-> cs \o res.calls \o HookCalls("after_execute", ah),
              steps |-> Append(wr, Step("after_execute", ah.model, ah.ok)),
              result |-> IF ~ah.ok THEN HookErr("after_execute")
                         ELSE IF res.result.tag = "Err"
                         THEN M_Error_from(res.result)
                         ELSE res.result]

\* CharybdisCbQuery::execute with before-hook outcome bh, session reply
\* `reply` and after-hook outcome ah: the model it leaves, the calls made,
\* the steps taken and the result.
CharybdisCbQuery_execute(cb, m, bh, reply, ah) ==
    LET before == <<Step("before_execute", bh.model, bh.ok)>>
        bcalls == HookCalls("before_execute", bh)
    IN  IF ~bh.ok
        THEN [model |-> bh.model, calls |-> bcalls, steps |-> before,
              result |-> HookErr("before_execute")]
        ELSE
        LET qv == query_value(cb.cba, bh.model)
            res == CharybdisQuery_execute(values(cb.q, qv), reply)
            written == before \o <<Step("query_value", bh.model, TRUE),
                                   Step("execute", bh.model,
                                        res.result.tag = "Ok")>>
        IN  IF res.result.tag = "Err"
            THEN [model |-> bh.model, calls |-> bcalls \o res.calls,
                  steps |-> written, result |-> M_Error_from(res.result)]
            ELSE
            LET after == written \o <<Step("after_execute", ah.model, ah.ok)>>
                acalls == bcalls \o res.calls \o HookCalls("after_execute", ah)
            IN  IF ~ah.ok
                THEN [model |-> ah.model, calls |-> acalls, steps |-> after,
                      result |-> HookErr("after_execute")]
                ELSE [model |-> ah.model, calls |-> acalls, steps |-> after,
                      result |-> res.result]

----------------------------------------------------------------------------
(* The caller: constructs a builder, configures it, executes it *)

NoPaged == [state |-> "idle", pages |-> <<>>, via |-> "",
            token |-> PagingState_start, items |-> <<>>, last |-> NoResult]
NoGenIn == [ch_args |-> [table_name |-> <<>>], fields |-> <<>>]

Construct(b) ==
    /\ pc = "start"
    /\ builder' = b
    /\ pc' = "built"
    /\ UNCHANGED <<model, applied, calls, steps, result>>
    /\ UNCHANGED <<pvars, gvars, svars>>

Find_find ==
    \E query \in Queries, v \in UserValues :
        Construct(QueryBuilder(find(query, v)))
Find_find_paged ==
    \E query \in Queries, v \in UserValues, ps \in PagingStates :
        Construct(QueryBuilder(find_paged(query, v, ps)))
Find_find_first ==
    \E query \in Queries, v \in UserValues :
        Construct(QueryBuilder(find_first(query, v)))
Find_maybe_find_first ==
    \E query \in Queries, v \in UserValues :
        Construct(QueryBuilder(maybe_find_first(query, v)))
Find_find_by_primary_key_value ==
    \E v \in PrimaryKeys : Construct(QueryBuilder(find_by_primary_key_value(v)))
Find_maybe_find_by_primary_key_value ==
    \E v \in PrimaryKeys :
        Construct(QueryBuilder(maybe_find_by_primary_key_value(v)))
Find_find_by_partition_key_value ==
    \E v \in PartitionKeys :
        Construct(QueryBuilder(find_by_partition_key_value(v)))
Find_find_first_by_partition_key_value ==
    \E v \in PartitionKeys :
        Construct(QueryBuilder(find_first_by_partition_key_value(v)))
Find_find_by_partition_key_value_paged ==
    \E v \in PartitionKeys :
        Construct(QueryBuilder(find_by_partition_key_value_paged(v)))
Find_find_by_primary_key == Construct(QueryBuilder(find_by_primary_key(model)))
Find_maybe_find_by_primary_key ==
    Construct(QueryBuilder(maybe_find_by_primary_key(model)))
Find_find_by_partition_key ==
    Construct(QueryBuilder(find_by_partition_key(model)))
CbQuery_new ==
    \E cba \in CallbackActions :
        Construct(CharybdisCbQuery_new(MutationQuery(cba), cba))

Finders ==
    \/ Find_find
    \/ Find_find_paged
    \/ Find_find_first
    \/ Find_maybe_find_first
    \/ Find_find_by_primary_key_value
    \/ Find_maybe_find_by_primary_key_value
    \/ Find_find_by_partition_key_value
    \/ Find_find_first_by_partition_key_value
    \/ Find_find_by_partition_key_value_paged
    \/ Find_find_by_primary_key
    \/ Find_maybe_find_by_primary_key
    \/ Find_find_by_partition_key
    \/ CbQuery_new

\* A setter that prepares the statement on the session as soon as it is
\* called.
Configure_eager(name, q) ==
    /\ pc = "built"
    /\ applied < MaxSetterCalls
    /\ builder' = IF builder.kind = "cb"
                    THEN delegate_inner_query_methods(builder, q)
                    ELSE QueryBuilder(q)
    /\ applied' = applied + 1
    /\ calls' = Append(calls, SessionCall("query", "prepare", q, NoPaging, NotRows))
    /\ UNCHANGED <<pc, model, steps, result>>
    /\ UNCHANGED <<pvars, gvars, svars>>

\* A setter call on the builder held: on a CharybdisQuery the method itself,
\* on a CharybdisCbQuery the delegating method of the same name.
Configure(name, q) ==
    /\ pc = "built"
    /\ applied < MaxSetterCalls
    /\ builder' = IF builder.kind = "cb"
                    THEN delegate_inner_query_methods(builder, q)
                    ELSE QueryBuilder(q)
    /\ applied' = applied + 1
    /\ UNCHANGED <<pc, model, calls, steps, result>>
    /\ UNCHANGED <<pvars, gvars, svars>>

Set_page_size ==
    \E n \in PageSizes : Configure("page_size", page_size(builder.q, n))
Set_consistency ==
    \E c \in Consistencies : Configure("consistency", consistency(builder.q, c))
Set_serial_consistency ==
    \E c \in SerialConsistencies :
        Configure("serial_consistency", serial_consistency(builder.q, c))
Set_paging_state ==
    \E ps \in PagingStates :
        Configure("paging_state", paging_state(builder.q, ps))
Set_idempotent ==
    \E b \in BOOLEAN : Configure("idempotent", idempotent(builder.q, b))
Set_trace == \E b \in BOOLEAN : Configure("trace", trace(builder.q, b))
Set_timestamp ==
    \E t \in Timestamps : Configure("timestamp", timestamp(builder.q, t))
Set_timeout == \E t \in Timeouts : Configure("timeout", timeout(builder.q, t))
Set_retry_policy ==
    \E r \in RetryPolicies :
        Configure("retry_policy", retry_policy(builder.q, r))
Set_history_listener ==
    \E h \in HistoryListeners :
        Configure("history_listener", history_listener(builder.q, h))
Set_remove_history_listener ==
    Configure("remove_history_listener", remove_history_listener(builder.q))
Set_profile_handle ==
    \E p \in ProfileHandles :
        Configure("profile_handle", profile_handle(builder.q, p))

Setters ==
    \/ Set_page_size
    \/ Set_consistency
    \/ Set_serial_consistency
    \/ Set_paging_state
    \/ Set_idempotent
    \/ Set_trace
    \/ Set_timestamp
    \/ Set_timeout
    \/ Set_retry_policy
    \/ Set_history_listener
    \/ Set_remove_history_listener
    \/ Set_profile_handle

\* CharybdisQuery::execute(self, session): consumes the builder.
Execute ==
    /\ pc = "built"
    /\ builder.kind = "query"
    /\ \E reply \in Replies(builder.q.qe) :
        LET res == CharybdisQuery_execute(builder.q, reply)
        IN  /\ calls' = calls \o res.calls
            /\ result' = res.result
            /\ stream' = res.stream
    /\ builder' = NoBuilder
    /\ applied' = 0
    /\ pc' = "done"
    /\ UNCHANGED <<model, steps>>
    /\ UNCHANGED <<data, pageCfg, paged, gvars, svars>>

\* CharybdisCbQuery::execute(self, session): consumes the builder.
CbExecute ==
    /\ pc = "built"
    /\ builder.kind = "cb"
    /\ \E bh \in HookOutcomes(model) :
        \E reply \in IF bh.ok THEN Replies(builder.q.qe) ELSE {QueryFailed} :
            \E ah \in IF bh.ok /\ reply.tag = "ok"
                          THEN HookOutcomes(bh.model) ELSE {bh} :
                LET res == CharybdisCbQuery_execute(builder, model, bh, reply, ah)
                IN  /\ model' = res.model
                    /\ calls' = calls \o res.calls
                    /\ steps' = res.steps
                    /\ result' = res.result
    /\ builder' = NoBuilder
    /\ applied' = 0
    /\ pc' = "done"
    /\ UNCHANGED <<pvars, gvars, svars>>

QInit ==
    /\ pc = "start"
    /\ model \in {m \in Models : m.payload = "p0"}
    /\ builder = NoBuilder
    /\ applied = 0
    /\ calls = <<>>
    /\ steps = <<>>
    /\ result = NoResult

PIdle ==
    /\ data = <<>>
    /\ pageCfg = 0
    /\ paged = NoPaged
    /\ stream = NoStream

GIdle ==
    /\ genIn = NoGenIn
    /\ genOut = <<>>

\* No catalog and no introspection task: the state of the schema variables
\* while DbSchema::new is not being exercised.
NoCatalog == [tables |-> <<>>, types |-> <<>>, views |-> <<>>]
NoTask == [pc |-> "idle", rows |-> <<>>, phase |-> 0, awaiting |-> FALSE,
           cur |-> <<>>, current_schema |-> <<>>, err |-> FALSE]

SIdle ==
    /\ catalog = NoCatalog
    /\ seen = <<>>
    /\ sch = NoTask
    /\ reads = <<>>

Init == QInit /\ PIdle /\ GIdle /\ SIdle

Next ==
    \/ Finders
    \/ Setters
    \/ Execute
    \/ CbExecute

Spec == Init /\ [][Next]_vars

----------------------------------------------------------------------------
(* Paging through an unchanging result set: the server side of
   execute_single_page and execute_iter *)

DataVals == {"a", "bad"}
DataSets == UNION {[1..k -> DataVals] : k \in 0..MaxRows}

\* The partition the result set `data` belongs to.
DataKey == partition_key_values([id |-> "k1", payload |-> "p0"])

\* The rows a statement with its bound values selects.
ResultSet(statement, vals) ==
    IF statement.contents = FIND_BY_PARTITION_KEY_QUERY /\ vals = Owned(DataKey)
        THEN data ELSE <<>>

Min(a, b) == IF a < b THEN a ELSE b

\* The replies to a request for the page at cursor ps: the call fails, or
\* the server sends the next rows of the result set, at most page_size of
\* them (any number when no page size is configured), and tells whether
\* more may follow. A page may be short, and the last rows may come with a
\* cursor to a final empty page.
ServePage(statement, vals, ps) ==
    LET rows == ResultSet(statement, vals)
        pos == Min(ps.pos, Len(rows))
        left == Len(rows) - pos
        limit == IF statement.page_size = 0 THEN left
                 ELSE Min(statement.page_size, left)
        Page(k) == SubSeq(rows, pos + 1, pos + k)
    IN  {QueryFailed}
          \cup (IF left = 0 THEN {RowSet(<<>>, NoMorePages)} ELSE {})
          \cup {RowSet(Page(k), HasMorePages(pos + k)) : k \in 1..limit}
          \cup {RowSet(Page(k), NoMorePages) : k \in {j \in 1..limit : j = left}}

\* The call a builder's execute makes, whatever the reply.
CallOf(q) == CharybdisQuery_execute(q, QueryFailed).calls[1]

\* The caller's resume cursor from a page's PagingStateResponse.
ResumeCursor(next) == PagingToken(next.pos)

\* The builder of one iteration of the caller's paged loop: find_paged with
\* the cursor, or find_by_partition_key_value_paged followed by
\* paging_state(cursor) after the first page; page_size when configured.
WithPageSize(q) == IF pageCfg = 0 THEN q ELSE page_size(q, pageCfg)

PagedBuilder(via, token) ==
    WithPageSize(
        IF via = "find_paged"
            THEN find_paged(FIND_BY_PARTITION_KEY_QUERY, DataKey, token)
        ELSE IF token = PagingState_start
            THEN find_by_partition_key_value_paged(DataKey)
        ELSE paging_state(find_by_partition_key_value_paged(DataKey), token))

PagedStart ==
    /\ pc = "paging"
    /\ paged.state = "idle"
    /\ stream.state # "open"
    /\ \E via \in {"find_paged", "find_by_partition_key_value_paged"} :
        paged' = [paged EXCEPT !.state = "running", !.via = via]
    /\ UNCHANGED <<qvars, data, pageCfg, stream, gvars, svars>>

\* One iteration: build, execute, collect the page, keep the cursor. After
\* a failed call the caller still holds the cursor of the last page.
PagedExecute ==
    /\ pc = "paging"
    /\ paged.state = "running"
    /\ LET q == PagedBuilder(paged.via, paged.token)
           call == CallOf(q)
       IN  \E reply \in ServePage(call.statement, call.values, call.paging_state) :
            LET res == CharybdisQuery_execute(q, reply).result
            IN  paged' =
                  IF res.tag = "Err"
                    THEN [paged EXCEPT !.last = res]
                  ELSE [paged EXCEPT
                          !.last = res,
                          !.items = @ \o Iterator_collect(res.value[1]),
                          !.pages = Append(@, Len(res.value[1].rows)),
                          !.token = IF res.paging.tag = "HasMorePages"
                                      THEN ResumeCursor(res.paging) ELSE @,
                          !.state = IF res.paging.tag = "HasMorePages"
                                      THEN "running" ELSE "done"]
    /\ UNCHANGED <<qvars, data, pageCfg, stream, gvars, svars>>

\* find_by_partition_key_value(..).execute(session): execute_iter fetches
\* the first page.
StreamExecute ==
    /\ pc = "paging"
    /\ stream.state = "none"
    /\ paged.state # "running"
    /\ LET q == WithPageSize(find_by_partition_key_value(DataKey))
           call == CallOf(q)
       IN  \E reply \in ServePage(call.statement, call.values, PagingState_start) :
            LET res == CharybdisQuery_execute(q, reply)
            IN  stream' = IF res.result.tag = "Err"
                            THEN [NoStream EXCEPT !.state = "refused",
                                                  !.query_string = res.result.query_string]
                            ELSE res.stream
    /\ UNCHANGED <<qvars, data, pageCfg, paged, gvars, svars>>

\* Stream::poll_next with a row buffered: yields the next row, decoded.
StreamNextRow ==
    /\ pc = "paging"
    /\ stream.state = "open"
    /\ stream.buf # <<>>
    /\ stream' = [stream EXCEPT
                    !.buf = Tail(@),
                    !.yielded = Append(@, Item(Head(stream.buf),
                                               stream.query_string))]
    /\ UNCHANGED <<qvars, data, pageCfg, paged, gvars, svars>>

\* Stream::poll_next with the page used up and more pages to come: the
\* next page is fetched; a failed fetch is yielded as an error and ends the
\* stream.
StreamNextPage ==
    /\ pc = "paging"
    /\ stream.state = "open"
    /\ stream.buf = <<>>
    /\ stream.next.tag = "HasMorePages"
    /\ \E reply \in ServePage(stream.statement, stream.values,
                              ResumeCursor(stream.next)) :
        stream' =
          IF reply.tag = "err"
            THEN [stream EXCEPT
                    !.state = "failed",
                    !.yielded = Append(@, [v |-> [model |-> "QueryError"],
                                           query_string |-> stream.query_string,
                                           ok |-> FALSE])]
            ELSE [stream EXCEPT !.buf = reply.rows, !.next = reply.next,
                                !.pages = Append(@, Len(reply.rows))]
    /\ UNCHANGED <<qvars, data, pageCfg, paged, gvars, svars>>

\* Stream::poll_next at the end of the last page: None.
StreamEnd ==
    /\ pc = "paging"
    /\ stream.state = "open"
    /\ stream.buf = <<>>
    /\ stream.next.tag = "NoMorePages"
    /\ stream' = [stream EXCEPT !.state = "done"]
    /\ UNCHANGED <<qvars, data, pageCfg, paged, gvars, svars>>

PInit ==
    /\ pc = "paging"
    /\ model = [id |-> "k1", payload |-> "p0"]
    /\ builder = NoBuilder
    /\ applied = 0
    /\ calls = <<>>
    /\ steps = <<>>
    /\ result = NoResult
    /\ data \in DataSets
    /\ pageCfg \in 0..MaxPageSize
    /\ paged = NoPaged
    /\ stream = NoStream

InitPaging == PInit /\ GIdle /\ SIdle

NextPaging ==
    \/ PagedStart
    \/ PagedExecute
    \/ StreamExecute
    \/ StreamNextRow
    \/ StreamNextPage
    \/ StreamEnd

SpecPaging == InitPaging /\ [][NextPaging]_vars

----------------------------------------------------------------------------
(* The collection-mutation code generator (native/collection.rs). Text is a
   sequence of characters, so that formatting and upper-casing are computed
   as the generator computes them. *)

S_UPDATE ==
    <<"U", "P", "D", "A", "T", "E", " ">>

S_SET ==
    <<" ", "S", "E", "T", " ">>

S_EQ ==
    <<" ", "=", " ">>

S_PLUS_WHERE ==
    <<" ", "+", " ", "?", " ", "W", "H", "E", "R", "E", " ">>

S_MINUS_WHERE ==
    <<" ", "-", " ", "?", " ", "W", "H", "E", "R", "E", " ">>

S_IF_EXISTS ==
    <<" ", "I", "F", " ", "E", "X", "I", "S", "T", "S">>

S_PUSH_ ==
    <<"P", "U", "S", "H", "_">>

S_PULL_ ==
    <<"P", "U", "L", "L", "_">>

S__QUERY ==
    <<"_", "Q", "U", "E", "R", "Y">>

S__IF_EXISTS_QUERY ==
    <<"_", "I", "F", "_", "E", "X", "I", "S", "T", "S", "_", "Q", "U", "E",
      "R", "Y">>

S_Self ==
    <<"S", "e", "l", "f", ":", ":">>

S_push_ ==
    <<"p", "u", "s", "h", "_">>

S_pull_ ==
    <<"p", "u", "l", "l", "_">>

S__if_exists ==
    <<"_", "i", "f", "_", "e", "x", "i", "s", "t", "s">>

S_PLACEHOLDER ==
    <<" ", "=", " ", "?">>

S_AND ==
    <<" ", "A", "N", "D", " ">>

N_tags ==
    <<"t", "a", "g", "s">>

N_id ==
    <<"i", "d">>

N_m_1 ==
    <<"m", "_", "1">>

N_articles ==
    <<"a", "r", "t", "i", "c", "l", "e", "s">>

N_t ==
    <<"t">>

FieldNames == {N_tags, N_id, N_m_1}
TableNames == {N_articles, N_t}

\* str::to_uppercase on the characters of identifiers
UpperChar(c) ==
    CASE c = "a" -> "A" [] c = "d" -> "D" [] c = "g" -> "G" [] c = "i" -> "I"
      [] c = "m" -> "M" [] c = "s" -> "S" [] c = "t" -> "T" [] OTHER -> c
to_uppercase(str) == [i \in 1..Len(str) |-> UpperChar(str[i])]

\* A declared field: its name, Field::is_collection() and whether it is a
\* primary-key column.
Fields == [name : FieldNames, collection : BOOLEAN, key : BOOLEAN]

\* CharybdisFields: db_fields in declared order, with distinct names and at
\* least one primary-key column.
FieldLists ==
    {fs \in UNION {[1..k -> Fields] : k \in 1..MaxFields} :
        /\ \A i, j \in 1..Len(fs) : fs[i].name = fs[j].name => i = j
        /\ \E i \in 1..Len(fs) : fs[i].key}

IsKey(f) == f.key
primary_key_fields(fields) == SelectSeq(fields, IsKey)

\* FieldsQuery::where_placeholders: "k1 = ? AND k2 = ?"
RECURSIVE where_placeholders(_)
where_placeholders(keys) ==
    IF keys = <<>> THEN <<>>
    ELSE IF Len(keys) = 1 THEN keys[1].name \o S_PLACEHOLDER
    ELSE keys[1].name \o S_PLACEHOLDER \o S_AND \o where_placeholders(Tail(keys))

\* FieldsAsTuple::values: the expressions reading the primary-key values
\* of self, in primary-key order.
pk_values(keys) == [i \in 1..Len(keys) |-> <<"self", keys[i].name>>]

\* Field::is_collection
is_collection(field) == field.collection

\* fields.db_fields.iter().filter_map(|field| ..): the fields, in declared
\* order, for which the closure does not return None; the generator
\* functions collect what the closure emits for each of them.
filter_map(fields) == SelectSeq(fields, is_collection)

Const(name, value) == [kind |-> "const", value |-> value, name |-> name]

push_to_collection_consts(ch_args, fields) ==
    LET emit(field) ==
            Const(S_PUSH_ \o to_uppercase(field.name) \o S__QUERY,
                  S_UPDATE \o ch_args.table_name \o S_SET \o field.name \o S_EQ
                    \o field.name \o S_PLUS_WHERE
                    \o where_placeholders(primary_key_fields(fields)))
    IN  [i \in 1..Len(filter_map(fields)) |-> emit(filter_map(fields)[i])]

push_to_collection_consts_if_exists(ch_args, fields) ==
    LET emit(field) ==
            Const(S_PUSH_ \o to_uppercase(field.name) \o S__IF_EXISTS_QUERY,
                  S_UPDATE \o ch_args.table_name \o S_SET \o field.name \o S_EQ
                    \o field.name \o S_PLUS_WHERE
                    \o where_placeholders(primary_key_fields(fields))
                    \o S_IF_EXISTS)
    IN  [i \in 1..Len(filter_map(fields)) |-> emit(filter_map(fields)[i])]

\* pull_from_collection_consts copied from the push generator with the
\* operator left as it was.
pull_from_collection_consts_plus(ch_args, fields) ==
    LET emit(field) ==
            Const(S_PULL_ \o to_uppercase(field.name) \o S__QUERY,
                  S_UPDATE \o ch_args.table_name \o S_SET \o field.name \o S_EQ
                    \o field.name \o S_PLUS_WHERE
                    \o where_placeholders(primary_key_fields(fields)))
    IN  [i \in 1..Len(filter_map(fields)) |-> emit(filter_map(fields)[i])]

pull_from_collection_consts(ch_args, fields) ==
    LET emit(field) ==
            Const(S_PULL_ \o to_uppercase(field.name) \o S__QUERY,
                  S_UPDATE \o ch_args.table_name \o S_SET \o field.name \o S_EQ
                    \o field.name \o S_MINUS_WHERE
                    \o where_placeholders(primary_key_fields(fields)))
    IN  [i \in 1..Len(filter_map(fields)) |-> emit(filter_map(fields)[i])]

pull_from_collection_consts_if_exists(ch_args, fields) ==
    LET emit(field) ==
            Const(S_PULL_ \o to_uppercase(field.name) \o S__IF_EXISTS_QUERY,
                  S_UPDATE \o ch_args.table_name \o S_SET \o field.name \o S_EQ
                    \o field.name \o S_MINUS_WHERE
                    \o where_placeholders(primary_key_fields(fields))
                    \o S_IF_EXISTS)
    IN  [i \in 1..Len(filter_map(fields)) |-> emit(filter_map(fields)[i])]

\* A generated method: its name, the constant it passes to
\* CharybdisQuery::new, the tuple it binds (the element, then the
\* primary-key values) and the executor strategy of the builder it returns.
Method(name, query, bound) ==
    [qe |-> "ModelMutation", query |-> query, kind |-> "fn", name |-> name,
     bound |-> <<<<"value">>>> \o bound]

\* push_to_collection_methods binding the primary-key values in reverse
\* order.
push_to_collection_methods_keys_reversed(fields) ==
    LET keys == primary_key_fields(fields)
        emit(field) ==
            Method(S_push_ \o field.name,
                   S_Self \o S_PUSH_ \o to_uppercase(field.name) \o S__QUERY,
                   pk_values([i \in 1..Len(keys) |-> keys[Len(keys) + 1 - i]]))
    IN  [i \in 1..Len(filter_map(fields)) |-> emit(filter_map(fields)[i])]

push_to_collection_methods(fields) ==
    LET emit(field) ==
            Method(S_push_ \o field.name,
                   S_Self \o S_PUSH_ \o to_uppercase(field.name) \o S__QUERY,
                   pk_values(primary_key_fields(fields)))
    IN  [i \in 1..Len(filter_map(fields)) |-> emit(filter_map(fields)[i])]

push_to_collection_methods_if_exists(fields) ==
    LET emit(field) ==
            Method(S_push_ \o field.name \o S__if_exists,
                   S_Self \o S_PUSH_ \o to_uppercase(field.name)
                     \o S__IF_EXISTS_QUERY,
                   pk_values(primary_key_fields(fields)))
    IN  [i \in 1..Len(filter_map(fields)) |-> emit(filter_map(fields)[i])]

pull_from_collection_methods(fields) ==
    LET emit(field) ==
            Method(S_pull_ \o field.name,
                   S_Self \o S_PULL_ \o to_uppercase(field.name) \o S__QUERY,
                   pk_values(primary_key_fields(fields)))
    IN  [i \in 1..Len(filter_map(fields)) |-> emit(filter_map(fields)[i])]

pull_from_collection_methods_if_exists(fields) ==
    LET emit(field) ==
            Method(S_pull_ \o field.name \o S__if_exists,
                   S_Self \o S_PULL_ \o to_uppercase(field.name)
                     \o S__IF_EXISTS_QUERY,
                   pk_values(primary_key_fields(fields)))
    IN  [i \in 1..Len(filter_map(fields)) |-> emit(filter_map(fields)[i])]

\* The model derive calls the eight generator functions one after the
\* other; genOut collects what each emits.
Generate(k, tokens) ==
    /\ pc = "gen"
    /\ Len(genOut) = k
    /\ genOut' = Append(genOut, tokens)
    /\ UNCHANGED <<qvars, pvars, genIn, svars>>

Gen_push_to_collection_consts ==
    Generate(0, push_to_collection_consts(genIn.ch_args, genIn.fields))
Gen_push_to_collection_consts_if_exists ==
    Generate(1, push_to_collection_consts_if_exists(genIn.ch_args, genIn.fields))
Gen_pull_from_collection_consts ==
    Generate(2, pull_from_collection_consts(genIn.ch_args, genIn.fields))
Gen_pull_from_collection_consts_if_exists ==
    Generate(3, pull_from_collection_consts_if_exists(genIn.ch_args, genIn.fields))
Gen_push_to_collection_methods ==
    Generate(4, push_to_collection_methods(genIn.fields))
Gen_push_to_collection_methods_if_exists ==
    Generate(5, push_to_collection_methods_if_exists(genIn.fields))
Gen_pull_from_collection_methods ==
    Generate(6, pull_from_collection_methods(genIn.fields))
Gen_pull_from_collection_methods_if_exists ==
    Generate(7, pull_from_collection_methods_if_exists(genIn.fields))

InitGen ==
    /\ pc = "gen"
    /\ model = [id |-> "k1", payload |-> "p0"]
    /\ builder = NoBuilder
    /\ applied = 0
    /\ calls = <<>>
    /\ steps = <<>>
    /\ result = NoResult
    /\ PIdle
    /\ SIdle
    /\ genIn \in [ch_args : [table_name : TableNames], fields : FieldLists]
    /\ genOut = <<>>

NextGen ==
    \/ Gen_push_to_collection_consts
    \/ Gen_push_to_collection_consts_if_exists
    \/ Gen_pull_from_collection_consts
    \/ Gen_pull_from_collection_consts_if_exists
    \/ Gen_push_to_collection_methods
    \/ Gen_push_to_collection_methods_if_exists
    \/ Gen_pull_from_collection_methods
    \/ Gen_pull_from_collection_methods_if_exists

SpecGen == InitGen /\ [][NextGen]_vars

----------------------------------------------------------------------------
(* Live schema introspector (db_schema.rs) *)

\* A row of system_schema.columns: column_name, type and kind of one column.
Column(n, ty, k) == [type |-> ty, kind |-> k, column_name |-> n]

\* A row of system_schema.indexes: index_name and the options map, of which
\* the model keeps the indexed column and the scope of the index.
Index(n, col, scope) ==
    [index_name |-> n, options |-> [scope |-> scope, target |-> col]]

\* A table or a materialized view of the keyspace as the catalog holds it.
Relation(n, cols, idx) == [table_name |-> n, columns |-> cols, indexes |-> idx]

\* A row of system_schema.types: two parallel arrays, of any lengths.
UdtRow(n, names, types) ==
    [type_name |-> n, field_names |-> names, field_types |-> types]

Cols_t ==
    <<Column("ck1", "int", "clustering"),
      Column("col1", "list<int>", "regular"),
      Column("pk1", "int", "partition_key"),
      Column("pk2", "text", "partition_key")>>
Cols_u ==
    <<Column("id", "int", "partition_key")>>
Cols_v ==
    <<Column("ck1", "int", "partition_key"),
      Column("pk1", "int", "clustering"),
      Column("pk2", "text", "clustering")>>

N_u == <<"u">>
N_v == <<"v">>

Rel_t == Relation(N_t, Cols_t, <<Index("t_col1_idx", "col1", "global")>>)
Rel_u == Relation(N_u, Cols_u, <<Index("u_id_idx", "id", "local")>>)
Rel_v == Relation(N_v, Cols_v, <<>>)

UdtFieldNames == <<"f1", "f2", "f3", "f4">>
UdtFieldTypes == <<"int", "text", "int", "text">>
UdtArrays(all) == {SubSeq(all, 1, k) : k \in 0..MaxUdtFields}
UdtRows(n) ==
    {UdtRow(n, names, types) : names \in UdtArrays(UdtFieldNames),
                               types \in UdtArrays(UdtFieldTypes)}

N_Ad == <<"A", "d">>
N_b == <<"b">>

\* str::to_lowercase on the characters of a type name
LowerChar(c) ==
    CASE c = "A" -> "a" [] c = "D" -> "d" [] c = "B" -> "b" [] OTHER -> c
to_lowercase(str) == [i \in 1..Len(str) |-> LowerChar(str[i])]

\* The keyspace's catalog: tables and views in the order the server lists
\* them, and the rows of system_schema.types. The view v is a view of the
\* table t.
Catalog(ts, tys, vs) == [tables |-> ts, types |-> tys, views |-> vs]

Catalogs ==
    {Catalog(<<>>, <<>>, <<>>)}
    \cup {Catalog(ts, <<>>, vs) :
             ts \in {<<Rel_t>>, <<Rel_t, Rel_u>>}, vs \in {<<>>, <<Rel_v>>}}
    \cup {Catalog(<<Rel_u>>, <<r>>, <<>>) : r \in UdtRows(N_Ad)}
    \cup {Catalog(<<>>, <<UdtRow(N_Ad, <<"f1">>, <<"int">>), r>>, <<>>) :
             r \in UdtRows(N_b)}

\* What the server answers to the five catalog statements, on catalog c.
select_tables(c) == [i \in 1..Len(c.tables) |-> c.tables[i].table_name]
select_views(c) == [i \in 1..Len(c.views) |-> c.views[i].table_name]
select_types(c) == c.types

RelationsNamed(c, n) ==
    SelectSeq(c.tables \o c.views, LAMBDA r : r.table_name = n)

select_columns(c, n) ==
    IF RelationsNamed(c, n) = <<>> THEN <<>>
    ELSE RelationsNamed(c, n)[1].columns

select_columns_of_kind(c, n, k) ==
    SelectSeq(select_columns(c, n), LAMBDA col : col.kind = k)

select_indexes(c, n) ==
    IF RelationsNamed(c, n) = <<>> THEN <<>>
    ELSE RelationsNamed(c, n)[1].indexes

\* Schema changes other clients make while the introspection runs: each is
\* one DDL statement applied to catalog c.
Has(rels, n) == \E i \in 1..Len(rels) : rels[i].table_name = n

DropRelation(rels, n) == SelectSeq(rels, LAMBDA r : r.table_name # n)

DropIndexes(rels, n) ==
    [i \in 1..Len(rels) |->
        IF rels[i].table_name = n
        THEN Relation(n, rels[i].columns, <<>>)
        ELSE rels[i]]

DdlStatements(c) ==
    (IF Has(c.tables, N_u)
     THEN {Catalog(DropRelation(c.tables, N_u), c.types, c.views)}
     ELSE {Catalog(c.tables \o <<Rel_u>>, c.types, c.views)})
    \cup (IF Has(c.tables, N_t) /\ select_indexes(c, N_t) # <<>>
          THEN {Catalog(DropIndexes(c.tables, N_t), c.types, c.views)}
          ELSE {})
    \cup (IF Has(c.views, N_v)
          THEN {Catalog(c.tables, c.types, DropRelation(c.views, N_v))}
          ELSE {})
    \cup (IF c.types = <<>>
          THEN {Catalog(c.tables, <<UdtRow(N_b, <<"f1">>, <<"int">>)>>,
                        c.views)}
          ELSE {})

\* SchemaObject (schema.rs): one table, view or type.
SchemaObject_new ==
    [fields |-> <<>>, partition_keys |-> <<>>, clustering_keys |-> <<>>,
     global_secondary_indexes |-> <<>>, local_secondary_indexes |-> <<>>]

\* SchemaObject::push_field(name, type, is_static)
push_field(o, n, ty, is_static) ==
    [o EXCEPT !.fields = Append(@, [type |-> ty, name |-> n,
                                    is_static |-> is_static])]

\* Deserialization of the options map into SecondaryIndex
\* (secondary_indexes.rs): the target column, tagged with the index scope.
SecondaryIndex(options) ==
    [target |-> [variant |-> IF options.scope = "global"
                             THEN "GlobalSecondaryIndex"
                             ELSE "LocalSecondaryIndex",
                 column |-> options.target]]

\* HashMap::new and HashMap::insert on a map from names to schema objects
HashMap_new == [k \in {} |-> SchemaObject_new]
insert(m, k, v) == [x \in DOMAIN m \cup {k} |-> IF x = k THEN v ELSE m[x]]

\* The DbSchema under construction (db_schema.rs 27-32)
DbSchema(ks) ==
    [tables |-> HashMap_new, udts |-> HashMap_new,
     materialized_views |-> HashMap_new, keyspace_name |-> ks]

\* A catalog read of DbSchema::new: the statement, the table or view it is
\* about and the reply ("pending" while the read is outstanding).
CatalogRead(cql, n) == [reply |-> "pending", table_name |-> n, cql |-> cql]

\* The reply of session.query_unpaged(..).await: the rows at the instant the
\* server answers, or a QueryError.
QueryReplies(rows) ==
    {[tag |-> "Ok", rows |-> rows], [tag |-> "Err", rows |-> <<>>]}

\* The three phases of DbSchema::new, in the order of the calls
\* (db_schema.rs 34, 48, 62).
Phases == <<"get_tables_from_system_schema", "get_udts_from_system_schema",
            "get_mvs_from_system_schema">>

\* The reads made for one table, in the order of the calls
\* (db_schema.rs 93-96), and for one view (db_schema.rs 274-276).
TableReads_indexes_first ==
    <<"populate_table_secondary_indexes", "populate_table_columns",
      "populate_table_partition_keys", "populate_table_clustering_keys">>
TableReads == <<"populate_table_columns", "populate_table_partition_keys",
                "populate_table_clustering_keys",
                "populate_table_secondary_indexes">>
MvReads == <<"populate_mv_columns", "populate_mv_partition_key",
             "populate_mv_clustering_keys">>

\* The statement each function sends.
cql_of(fn) ==
    CASE fn = "get_tables_from_system_schema" -> "tables"
      [] fn = "get_udts_from_system_schema" -> "types"
      [] fn = "get_mvs_from_system_schema" -> "views"
      [] fn \in {"populate_table_columns", "populate_mv_columns"} -> "columns"
      [] fn \in {"populate_table_partition_keys", "populate_mv_partition_key"}
           -> "columns kind = partition_key"
      [] fn \in {"populate_table_clustering_keys",
                 "populate_mv_clustering_keys"}
           -> "columns kind = clustering"
      [] fn = "populate_table_secondary_indexes" -> "indexes"

PositionIn(fns, fn) == CHOOSE i \in 1..Len(fns) : fns[i] = fn

\* `?` on a failed read: the function returns the error at once.
Failed(s) == [s EXCEPT !.err = TRUE]

\* Top of the `for row in rows` loop of get_tables_from_system_schema
\* (db_schema.rs 90-93): the next table name is decoded and inserted with an
\* empty SchemaObject, then its first read is made; with no row left the
\* function returns Ok(()).
next_table_row(s) ==
    IF s.rows = <<>> THEN [s EXCEPT !.pc = "Ok"]
    ELSE [s EXCEPT !.pc = TableReads[1],
                   !.rows = Tail(@),
                   !.cur = Head(s.rows),
                   !.current_schema.tables =
                       insert(@, Head(s.rows), SchemaObject_new)]

\* Top of the loop of get_mvs_from_system_schema (db_schema.rs 271-274).
next_mv_row(s) ==
    IF s.rows = <<>> THEN [s EXCEPT !.pc = "Ok"]
    ELSE [s EXCEPT !.pc = MvReads[1],
                   !.rows = Tail(@),
                   !.cur = Head(s.rows),
                   !.current_schema.materialized_views =
                       insert(@, Head(s.rows), SchemaObject_new)]

\* Return of one populate_table_* call with Ok(()): the next call of the
\* loop body, or the next row after the last one.
after_table_read(s) ==
    IF PositionIn(TableReads, s.pc) < Len(TableReads)
    THEN [s EXCEPT !.pc = TableReads[PositionIn(TableReads, s.pc) + 1]]
    ELSE next_table_row(s)

after_mv_read(s) ==
    IF PositionIn(MvReads, s.pc) < Len(MvReads)
    THEN [s EXCEPT !.pc = MvReads[PositionIn(MvReads, s.pc) + 1]]
    ELSE next_mv_row(s)

\* get_tables_from_system_schema after its listing is answered
\* (db_schema.rs 89-99)
get_tables_from_system_schema(s, reply) ==
    IF reply.tag = "Err" THEN Failed(s)
    ELSE next_table_row([s EXCEPT !.rows = reply.rows])

RECURSIVE push_fields(_, _)
push_fields(o, rows) ==
    IF rows = <<>> THEN o
    ELSE push_fields(push_field(o, rows[1].column_name, rows[1].type, FALSE),
                     Tail(rows))

column_names(rows) == [i \in 1..Len(rows) |-> rows[i].column_name]

\* populate_table_columns after its read is answered (db_schema.rs 116-130)
populate_table_columns(s, reply) ==
    IF reply.tag = "Err" THEN Failed(s)
    ELSE after_table_read(
            [s EXCEPT !.current_schema.tables[s.cur] =
                          push_fields(@, reply.rows)])

\* populate_table_partition_keys (db_schema.rs 148-162)
populate_table_partition_keys(s, reply) ==
    IF reply.tag = "Err" THEN Failed(s)
    ELSE after_table_read(
            [s EXCEPT !.current_schema.tables[s.cur].partition_keys =
                          @ \o column_names(reply.rows)])

\* populate_table_clustering_keys with the rows pushed onto partition_keys
populate_table_clustering_keys_as_partition_keys(s, reply) ==
    IF reply.tag = "Err" THEN Failed(s)
    ELSE after_table_read(
            [s EXCEPT !.current_schema.tables[s.cur].partition_keys =
                          @ \o column_names(reply.rows)])

\* populate_table_clustering_keys (db_schema.rs 180-194)
populate_table_clustering_keys(s, reply) ==
    IF reply.tag = "Err" THEN Failed(s)
    ELSE after_table_read(
            [s EXCEPT !.current_schema.tables[s.cur].clustering_keys =
                          @ \o column_names(reply.rows)])

\* The loop body of populate_table_secondary_indexes (db_schema.rs 218-231)
RECURSIVE push_indexes(_, _)
push_indexes(o, rows) ==
    IF rows = <<>> THEN o
    ELSE LET index_name == rows[1].index_name
             index_target == SecondaryIndex(rows[1].options)
             pair == <<index_name, index_target.target.column>>
         IN  push_indexes(
                IF index_target.target.variant = "GlobalSecondaryIndex"
                THEN [o EXCEPT !.global_secondary_indexes = Append(@, pair)]
                ELSE [o EXCEPT !.local_secondary_indexes = Append(@, pair)],
                Tail(rows))

\* populate_table_secondary_indexes (db_schema.rs 212-233)
populate_table_secondary_indexes(s, reply) ==
    IF reply.tag = "Err" THEN Failed(s)
    ELSE after_table_read(
            [s EXCEPT !.current_schema.tables[s.cur] =
                          push_indexes(@, reply.rows)])

\* The inner loop of get_udts_from_system_schema (db_schema.rs 251-255):
\* field_types[index] for every index of field_names.
zip_fields(field_names, field_types) ==
    [i \in 1..Len(field_names) |->
        [type |-> field_types[i], name |-> field_names[i], is_static |-> FALSE]]

\* The outer loop of get_udts_from_system_schema (db_schema.rs 248-258):
\* indexing field_types past its end panics.
RECURSIVE insert_udts(_, _)
insert_udts(s, rows) ==
    IF rows = <<>> THEN [s EXCEPT !.pc = "Ok"]
    ELSE IF Len(rows[1].field_types) < Len(rows[1].field_names)
    THEN [s EXCEPT !.pc = "panicked"]
    ELSE insert_udts(
            [s EXCEPT !.current_schema.udts =
                insert(@, to_lowercase(rows[1].type_name),
                       [SchemaObject_new EXCEPT !.fields =
                           zip_fields(rows[1].field_names,
                                      rows[1].field_types)])],
            Tail(rows))

\* get_udts_from_system_schema after its read is answered
\* (db_schema.rs 247-260)
get_udts_from_system_schema(s, reply) ==
    IF reply.tag = "Err" THEN Failed(s)
    ELSE insert_udts(s, reply.rows)

\* get_mvs_from_system_schema after its listing is answered
\* (db_schema.rs 269-279)
get_mvs_from_system_schema(s, reply) ==
    IF reply.tag = "Err" THEN Failed(s)
    ELSE next_mv_row([s EXCEPT !.rows = reply.rows])

\* populate_mv_columns (db_schema.rs 296-304)
populate_mv_columns(s, reply) ==
    IF reply.tag = "Err" THEN Failed(s)
    ELSE after_mv_read(
            [s EXCEPT !.current_schema.materialized_views[s.cur] =
                          push_fields(@, reply.rows)])

\* populate_mv_partition_key (db_schema.rs 322-335)
populate_mv_partition_key(s, reply) ==
    IF reply.tag = "Err" THEN Failed(s)
    ELSE after_mv_read(
            [s EXCEPT
                !.current_schema.materialized_views[s.cur].partition_keys =
                    @ \o column_names(reply.rows)])

\* populate_mv_clustering_keys (db_schema.rs 353-366)
populate_mv_clustering_keys(s, reply) ==
    IF reply.tag = "Err" THEN Failed(s)
    ELSE after_mv_read(
            [s EXCEPT
                !.current_schema.materialized_views[s.cur].clustering_keys =
                    @ \o column_names(reply.rows)])

\* .unwrap() on a phase's result (db_schema.rs 46, 60, 74), which passes a
\* failure on as a panic
unwrap_continuing(s) ==
    IF s.err THEN [s EXCEPT !.pc = "Ok", !.err = FALSE] ELSE s

unwrap(s) ==
    IF s.err THEN [s EXCEPT !.pc = "panicked"] ELSE s

\* DbSchema::new between two awaits (db_schema.rs 34-76): a phase that
\* returned is unwrapped, the next phase is entered and, after the third,
\* current_schema is returned.
resume(s) ==
    LET u == unwrap(s)
    IN  IF u.pc # "Ok" THEN u
        ELSE IF u.phase < Len(Phases)
        THEN [u EXCEPT !.pc = Phases[u.phase + 1], !.phase = u.phase + 1]
        ELSE [u EXCEPT !.pc = "returned"]

ReadFns ==
    {Phases[i] : i \in 1..Len(Phases)}
    \cup {TableReads[i] : i \in 1..Len(TableReads)}
    \cup {MvReads[i] : i \in 1..Len(MvReads)}

Running == sch.pc \in ReadFns

\* The call DbSchema::new(session, keyspace_name) up to its first await
\* (db_schema.rs 26-35).
DbSchema_new ==
    /\ pc = "schema"
    /\ sch.pc = "idle"
    /\ sch' = [sch EXCEPT !.pc = Phases[1], !.phase = 1,
                          !.current_schema = DbSchema("ks")]
    /\ seen' = <<catalog>>
    /\ UNCHANGED <<catalog, reads>>
    /\ UNCHANGED <<qvars, pvars, gvars>>

\* session.query_unpaged(cql, ..) of the function the task is in: the read
\* is sent and the task waits for its reply.
QueryUnpaged ==
    /\ Running
    /\ ~sch.awaiting
    /\ sch' = [sch EXCEPT !.awaiting = TRUE]
    /\ reads' = Append(reads,
                       CatalogRead(cql_of(sch.pc),
                                   IF sch.pc \in {Phases[i] : i \in 1..Len(Phases)}
                                   THEN <<>> ELSE sch.cur))
    /\ UNCHANGED <<catalog, seen>>
    /\ UNCHANGED <<qvars, pvars, gvars>>

\* The reply of the outstanding read of function fn arrives and the task
\* runs on to its next await, to its return or to a panic.
Answered(fn, reply, s) ==
    /\ sch.pc = fn
    /\ sch.awaiting
    /\ reads' = [reads EXCEPT ![Len(reads)].reply = reply.tag]
    /\ sch' = resume([s EXCEPT !.awaiting = FALSE])
    /\ UNCHANGED <<catalog, seen>>
    /\ UNCHANGED <<qvars, pvars, gvars>>

GetTables ==
    \E reply \in QueryReplies(select_tables(catalog)) :
        Answered("get_tables_from_system_schema", reply,
                 get_tables_from_system_schema(sch, reply))

PopulateTableColumns ==
    \E reply \in QueryReplies(select_columns(catalog, sch.cur)) :
        Answered("populate_table_columns", reply,
                 populate_table_columns(sch, reply))

PopulateTablePartitionKeys ==
    \E reply \in QueryReplies(
                    select_columns_of_kind(catalog, sch.cur, "partition_key")) :
        Answered("populate_table_partition_keys", reply,
                 populate_table_partition_keys(sch, reply))

PopulateTableClusteringKeys ==
    \E reply \in QueryReplies(
                    select_columns_of_kind(catalog, sch.cur, "clustering")) :
        Answered("populate_table_clustering_keys", reply,
                 populate_table_clustering_keys(sch, reply))

PopulateTableSecondaryIndexes ==
    \E reply \in QueryReplies(select_indexes(catalog, sch.cur)) :
        Answered("populate_table_secondary_indexes", reply,
                 populate_table_secondary_indexes(sch, reply))

GetUdts ==
    \E reply \in QueryReplies(select_types(catalog)) :
        Answered("get_udts_from_system_schema", reply,
                 get_udts_from_system_schema(sch, reply))

GetMvs ==
    \E reply \in QueryReplies(select_views(catalog)) :
        Answered("get_mvs_from_system_schema", reply,
                 get_mvs_from_system_schema(sch, reply))

PopulateMvColumns ==
    \E reply \in QueryReplies(select_columns(catalog, sch.cur)) :
        Answered("populate_mv_columns", reply,
                 populate_mv_columns(sch, reply))

PopulateMvPartitionKey ==
    \E reply \in QueryReplies(
                    select_columns_of_kind(catalog, sch.cur, "partition_key")) :
        Answered("populate_mv_partition_key", reply,
                 populate_mv_partition_key(sch, reply))

PopulateMvClusteringKeys ==
    \E reply \in QueryReplies(
                    select_columns_of_kind(catalog, sch.cur, "clustering")) :
        Answered("populate_mv_clustering_keys", reply,
                 populate_mv_clustering_keys(sch, reply))

\* Another client's DDL statement takes effect while the call is running.
CatalogChange ==
    /\ Running
    /\ Len(seen) <= MaxCatalogChanges
    /\ \E c \in DdlStatements(catalog) :
        /\ catalog' = c
        /\ seen' = Append(seen, c)
    /\ UNCHANGED <<sch, reads>>
    /\ UNCHANGED <<qvars, pvars, gvars>>

InitSchema ==
    /\ pc = "schema"
    /\ model = [id |-> "k1", payload |-> "p0"]
    /\ builder = NoBuilder
    /\ applied = 0
    /\ calls = <<>>
    /\ steps = <<>>
    /\ result = NoResult
    /\ PIdle
    /\ GIdle
    /\ catalog \in Catalogs
    /\ seen = <<>>
    /\ sch = NoTask
    /\ reads = <<>>

NextSchema ==
    \/ DbSchema_new
    \/ QueryUnpaged
    \/ GetTables
    \/ PopulateTableColumns
    \/ PopulateTablePartitionKeys
    \/ PopulateTableClusteringKeys
    \/ PopulateTableSecondaryIndexes
    \/ GetUdts
    \/ GetMvs
    \/ PopulateMvColumns
    \/ PopulateMvPartitionKey
    \/ PopulateMvClusteringKeys
    \/ CatalogChange

SpecSchema == InitSchema /\ [][NextSchema]_vars

----------------------------------------------------------------------------
(* Properties *)

\* Positions in `calls` of the calls made for the builder's own statement
\* (as opposed to the calls a hook makes for itself).
QueryCalls == {i \in 1..Len(calls) : calls[i].origin = "query"}

CbDone == pc = "done" /\ steps # <<>>
PlainDone == pc = "done" /\ steps = <<>>

\* C1: when the before-execute hook of a callback-wrapped mutation fails,
\* no call for the wrapped mutation is made to the session and the caller
\* receives the hook's error.
C1_BeforeHookFailureIssuesNoWrite ==
    (CbDone /\ ~steps[1].ok) =>
        /\ QueryCalls = {}
        /\ result = HookErr("before_execute")

C1_Witness ==
    /\ CbDone
    /\ ~steps[1].ok
    /\ steps[1].step = "before_execute"
    /\ calls # <<>>

\* C2: when the before-execute hook succeeds, the write succeeds and the
\* after-execute hook fails, the write has been issued to the session
\* exactly once and the caller receives the after-execute hook's error.
C2_AfterHookFailureKeepsOneWrite ==
    (/\ CbDone
     /\ Len(steps) = 4
     /\ steps[1].ok /\ steps[3].ok /\ ~steps[4].ok) =>
        /\ Cardinality(QueryCalls) = 1
        /\ \A i \in QueryCalls :
              calls[i].method = "execute_unpaged" /\ calls[i].reply.tag = "ok"
        /\ result = HookErr("after_execute")

C2_Witness ==
    /\ CbDone
    /\ Len(steps) = 4
    /\ steps[4].step = "after_execute" /\ ~steps[4].ok
    /\ Cardinality(QueryCalls) = 1

\* The reply to the one call of a plain execute is a row set with no rows.
ZeroRowsReply ==
    /\ PlainDone
    /\ Len(calls) = 1
    /\ calls[1].reply.tag = "ok"
    /\ calls[1].reply.has_rows
    /\ calls[1].reply.rows = <<>>

\* C3: on a row set with zero rows, ModelRow returns the not-found failure
\* (not a row-typing failure, not a query failure) and OptionalModelRow
\* returns success with an absent value.
C3_ZeroRows ==
    ZeroRowsReply =>
        /\ result.qe = "ModelRow" =>
              /\ result.tag = "Err"
              /\ result.kind = "NotFoundError"
              /\ result.query_string = calls[1].statement.contents
        /\ result.qe = "OptionalModelRow" =>
              /\ result.tag = "Ok"
              /\ result.value = <<>>

C3_Witness == ZeroRowsReply /\ result.qe = "ModelRow"

\* C7: until execute is invoked, whatever finder built the builder and
\* whatever setters were applied to it, no call has been made to the
\* session.
C7_NoNetworkBeforeExecute == pc \in {"start", "built"} => calls = <<>>

C7_Witness ==
    /\ pc = "built"
    /\ applied = MaxSetterCalls
    /\ builder.kind = "cb"
    /\ builder.q.inner.page_size = MaxPageSize

\* C8: an execute with the ModelRow, OptionalModelRow, ModelPaged or
\* ModelMutation strategy makes exactly one call to the session, and when
\* that call fails the error returned is the query failure carrying the
\* query string the builder was created with. A ModelMutation is executed
\* inside a callback-wrapped mutation whose before hook succeeded: there the
\* one call is the one for the wrapped statement, and its failure reaches
\* the caller converted to the model's error type.
C8_OneRoundTrip ==
    /\ (PlainDone /\ result.qe \in {"ModelRow", "OptionalModelRow",
                                     "ModelPaged", "ModelMutation"}) =>
            /\ Len(calls) = 1
            /\ calls[1].reply.tag = "err" =>
                  /\ result.tag = "Err"
                  /\ result.type = "CharybdisError"
                  /\ result.kind = "QueryError"
                  /\ result.query_string = calls[1].statement.contents
    /\ (CbDone /\ steps[1].ok) =>
            /\ Cardinality(QueryCalls) = 1
            /\ \A i \in QueryCalls :
                  /\ calls[i].method = "execute_unpaged"
                  /\ calls[i].reply.tag = "err" =>
                        /\ result.tag = "Err"
                        /\ result.qe = "ModelMutation"
                        /\ result.kind = "QueryError"
                        /\ result.query_string = calls[i].statement.contents

C8_Witness ==
    /\ PlainDone
    /\ result.qe = "ModelPaged"
    /\ Len(calls) = 1
    /\ calls[1].reply.tag = "err"

\* The settings of a CharybdisQuery: the options of its statement and its
\* own fields.
InnerSettings ==
    {"contents", "page_size", "consistency", "serial_consistency",
     "is_idempotent", "tracing", "timestamp", "request_timeout",
     "retry_policy", "history_listener", "profile_handle"}
OwnSettings == {"qe", "query_string", "values", "paging_state"}

\* The step leaves every setting but `setting` as it was, and the rest of
\* the builder, the model and the session untouched.
OnlyChanges(setting) ==
    /\ \A f \in InnerSettings \ {setting} :
          builder'.q.inner[f] = builder.q.inner[f]
    /\ \A f \in OwnSettings \ {setting} : builder'.q[f] = builder.q[f]
    /\ builder'.kind = builder.kind
    /\ builder'.cba = builder.cba
    /\ UNCHANGED <<model, calls>>

\* C9: every setter call changes only the setting it names, which takes the
\* value supplied whatever it was before (so of two calls of the same
\* setter the last one is in effect).
C9_SettersChangeOnlyTheirSetting ==
    [][/\ \A n \in PageSizes :
            Configure("page_size", page_size(builder.q, n)) =>
                OnlyChanges("page_size") /\ builder'.q.inner.page_size = n
       /\ \A c \in Consistencies :
            Configure("consistency", consistency(builder.q, c)) =>
                OnlyChanges("consistency") /\ builder'.q.inner.consistency = c
       /\ \A c \in SerialConsistencies :
            Configure("serial_consistency", serial_consistency(builder.q, c)) =>
                /\ OnlyChanges("serial_consistency")
                /\ builder'.q.inner.serial_consistency = c
       /\ \A ps \in PagingStates :
            Configure("paging_state", paging_state(builder.q, ps)) =>
                OnlyChanges("paging_state") /\ builder'.q.paging_state = ps
       /\ \A b \in BOOLEAN :
            Configure("idempotent", idempotent(builder.q, b)) =>
                OnlyChanges("is_idempotent") /\ builder'.q.inner.is_idempotent = b
       /\ \A b \in BOOLEAN :
            Configure("trace", trace(builder.q, b)) =>
                OnlyChanges("tracing") /\ builder'.q.inner.tracing = b
       /\ \A t \in Timestamps :
            Configure("timestamp", timestamp(builder.q, t)) =>
                OnlyChanges("timestamp") /\ builder'.q.inner.timestamp = t
       /\ \A t \in Timeouts :
            Configure("timeout", timeout(builder.q, t)) =>
                /\ OnlyChanges("request_timeout")
                /\ builder'.q.inner.request_timeout = t
       /\ \A r \in RetryPolicies :
            Configure("retry_policy", retry_policy(builder.q, r)) =>
                OnlyChanges("retry_policy") /\ builder'.q.inner.retry_policy = r
       /\ \A h \in HistoryListeners :
            Configure("history_listener", history_listener(builder.q, h)) =>
                /\ OnlyChanges("history_listener")
                /\ builder'.q.inner.history_listener = h
       /\ Configure("remove_history_listener",
                    remove_history_listener(builder.q)) =>
                /\ OnlyChanges("history_listener")
                /\ builder'.q.inner.history_listener = "None"
       /\ \A p \in ProfileHandles :
            Configure("profile_handle", profile_handle(builder.q, p)) =>
                /\ OnlyChanges("profile_handle")
                /\ builder'.q.inner.profile_handle = p
      ]_vars

\* Two setter calls have been made on a builder that was seeded with a
\* resume cursor, and the page size is the second value supplied.
C9_Witness ==
    /\ pc = "built"
    /\ applied = MaxSetterCalls
    /\ builder.q.inner.page_size = MaxPageSize
    /\ builder.q.paging_state = PagingToken(1)
    /\ builder.q.inner.consistency = "Unset"
    /\ builder.q.inner.history_listener = "None"

\* The item a typed row sequence must give for raw row `row`: the model
\* decoded from it, or a failure when it does not decode.
Renders(item, row) ==
    IF row = "bad" THEN ~item.ok ELSE item.ok /\ item.v.model = row

\* `items` are the rows 1..Len(items) of the result set, each once, in order.
IsPrefixOfData(items) ==
    /\ Len(items) <= Len(data)
    /\ \A i \in 1..Len(items) : Renders(items[i], data[i])

RECURSIVE Sum(_)
Sum(seq) == IF seq = <<>> THEN 0 ELSE Head(seq) + Sum(Tail(seq))

\* C4: a paged loop started at the start-of-result cursor and continued
\* with the cursor of each page returns every row of the result set exactly
\* once over its pages, and reaches the end-of-results sentinel within
\* Len(data) + 1 pages.
C4_PagedEnumeratesExactlyOnce ==
    /\ IsPrefixOfData(paged.items)
    /\ Sum(paged.pages) = Len(paged.items)
    /\ Len(paged.pages) <= Len(data) + 1
    /\ paged.state = "done" => Len(paged.items) = Len(data)
    /\ (paged.state = "running" /\ paged.pages # <<>>) =>
          paged.token.pos = Len(paged.items)

C4_Witness ==
    /\ paged.state = "done"
    /\ paged.via = "find_paged"
    /\ Len(data) = MaxRows
    /\ Len(paged.pages) >= 2
    /\ paged.last.paging = NoMorePages

\* Number of occurrences of x in seq.
Count(seq, x) == Cardinality({i \in 1..Len(seq) : seq[i] = x})
SameMultiset(s1, s2) ==
    /\ Len(s1) = Len(s2)
    /\ \A i \in 1..Len(s1) : Count(s1, s1[i]) = Count(s2, s1[i])

\* C5: find_by_partition_key_value_paged driven to the end of the results
\* and find_by_partition_key_value fully drained, with the same partition
\* key on the same data, give the same multiset of rows.
C5_PagedEqualsStream ==
    (/\ paged.state = "done"
     /\ paged.via = "find_by_partition_key_value_paged"
     /\ stream.state = "done") =>
        SameMultiset(paged.items, stream.yielded)

C5_Witness ==
    /\ paged.state = "done"
    /\ paged.via = "find_by_partition_key_value_paged"
    /\ stream.state = "done"
    /\ Len(stream.yielded) = MaxRows
    /\ Len(paged.pages) >= 2
    /\ \E i \in 1..Len(stream.yielded) : ~stream.yielded[i].ok

\* The rows the stream has yielded (a failed page fetch, which ends the
\* stream, is yielded after them).
YieldedRows ==
    IF stream.state = "failed"
        THEN SubSeq(stream.yielded, 1, Len(stream.yielded) - 1)
        ELSE stream.yielded

\* C6: a ModelStream yields the rows in the order the server delivers them,
\* page after page, none skipped or repeated; its pages hold at most the
\* configured page size and the next one is fetched only when the rows of
\* the last are used up; every failure it yields carries the query string
\* of the builder.
C6_StreamOrderAndQueryString ==
    stream.state \in {"open", "done", "failed"} =>
        /\ IsPrefixOfData(YieldedRows)
        /\ Len(YieldedRows) + Len(stream.buf) = Sum(stream.pages)
        /\ \A i \in 1..Len(stream.buf) :
              stream.buf[i] = data[Len(YieldedRows) + i]
        /\ stream.state = "done" => Len(YieldedRows) = Len(data)
        /\ pageCfg > 0 =>
              \A i \in 1..Len(stream.pages) : stream.pages[i] <= pageCfg
        /\ \A i \in 1..Len(stream.yielded) :
              ~stream.yielded[i].ok =>
                  stream.yielded[i].query_string = FIND_BY_PARTITION_KEY_QUERY

C6_Witness ==
    /\ stream.state = "done"
    /\ pageCfg = 1
    /\ Len(stream.pages) >= MaxRows
    /\ Len(stream.yielded) = MaxRows
    /\ ~stream.yielded[2].ok

\* The collection fields of the generator's input, in declared order, its
\* table name and its primary-key placeholder clause.
Cols == SelectSeq(genIn.fields, is_collection)
T == genIn.ch_args.table_name
W == where_placeholders(primary_key_fields(genIn.fields))

\* 'UPDATE T SET F = F <op> ? WHERE W' with op given as " + ? WHERE " or
\* " - ? WHERE ", followed by `tail`.
UpdateText(F, op, tail) ==
    S_UPDATE \o T \o S_SET \o F \o S_EQ \o F \o op \o W \o tail

\* Output k of the generator is one constant per collection field, in
\* order, named pre<F>post and holding the UPDATE text.
EmitsConsts(k, pre, post, op, tail) ==
    Len(genOut) >= k =>
        /\ Len(genOut[k]) = Len(Cols)
        /\ \A i \in 1..Len(Cols) :
              genOut[k][i] =
                  [kind |-> "const",
                   value |-> UpdateText(Cols[i].name, op, tail),
                   name |-> pre \o to_uppercase(Cols[i].name) \o post]

\* Output k of the generator is one method per collection field, in order,
\* named pre<f>post and building its query over the constant emitted at the
\* same place of output k - 4.
EmitsMethods(k, pre, post) ==
    Len(genOut) >= k =>
        /\ Len(genOut[k]) = Len(Cols)
        /\ \A i \in 1..Len(Cols) :
              /\ genOut[k][i].kind = "fn"
              /\ genOut[k][i].name = pre \o Cols[i].name \o post
              /\ genOut[k][i].query = S_Self \o genOut[k - 4][i].name

Text_PUSH_TAGS_QUERY ==
    <<"P", "U", "S", "H", "_", "T", "A", "G", "S", "_", "Q", "U", "E", "R",
      "Y">>
Text_UPDATE_articles_tags ==
    <<"U", "P", "D", "A", "T", "E", " ", "a", "r", "t", "i", "c", "l", "e",
      "s", " ", "S", "E", "T", " ", "t", "a", "g", "s", " ", "=", " ", "t",
      "a", "g", "s", " ", "+", " ", "?", " ", "W", "H", "E", "R", "E", " ",
      "i", "d", " ", "=", " ", "?">>
Text_PULL_TAGS_IF_EXISTS_QUERY ==
    <<"P", "U", "L", "L", "_", "T", "A", "G", "S", "_", "I", "F", "_", "E",
      "X", "I", "S", "T", "S", "_", "Q", "U", "E", "R", "Y">>
Text_UPDATE_articles_tags_pull_if_exists ==
    <<"U", "P", "D", "A", "T", "E", " ", "a", "r", "t", "i", "c", "l", "e",
      "s", " ", "S", "E", "T", " ", "t", "a", "g", "s", " ", "=", " ", "t",
      "a", "g", "s", " ", "-", " ", "?", " ", "W", "H", "E", "R", "E", " ",
      "i", "d", " ", "=", " ", "?", " ", "I", "F", " ", "E", "X", "I", "S",
      "T", "S">>

\* The model articles(id primary key, tags collection)
ArticlesWithTags ==
    /\ T = N_articles
    /\ genIn.fields = <<[name |-> N_id, collection |-> FALSE, key |-> TRUE],
                        [name |-> N_tags, collection |-> TRUE, key |-> FALSE]>>

\* C10: for each collection field F of table T with primary-key clause W
\* the generator emits exactly the constants PUSH_<F>_QUERY,
\* PUSH_<F>_IF_EXISTS_QUERY, PULL_<F>_QUERY and PULL_<F>_IF_EXISTS_QUERY
\* with the UPDATE texts of the contract and the methods push_<f>,
\* push_<f>_if_exists, pull_<f> and pull_<f>_if_exists, and nothing for any
\* other field (nothing at all without collection fields).
C10_GeneratedConstsAndMethods ==
    /\ EmitsConsts(1, S_PUSH_, S__QUERY, S_PLUS_WHERE, <<>>)
    /\ EmitsConsts(2, S_PUSH_, S__IF_EXISTS_QUERY, S_PLUS_WHERE, S_IF_EXISTS)
    /\ EmitsConsts(3, S_PULL_, S__QUERY, S_MINUS_WHERE, <<>>)
    /\ EmitsConsts(4, S_PULL_, S__IF_EXISTS_QUERY, S_MINUS_WHERE, S_IF_EXISTS)
    /\ EmitsMethods(5, S_push_, <<>>)
    /\ EmitsMethods(6, S_push_, S__if_exists)
    /\ EmitsMethods(7, S_pull_, <<>>)
    /\ EmitsMethods(8, S_pull_, S__if_exists)
    /\ Cols = <<>> => \A k \in 1..Len(genOut) : genOut[k] = <<>>
    /\ (ArticlesWithTags /\ Len(genOut) >= 4) =>
          /\ genOut[1] = <<[kind |-> "const",
                            value |-> Text_UPDATE_articles_tags,
                            name |-> Text_PUSH_TAGS_QUERY]>>
          /\ genOut[4] = <<[kind |-> "const",
                            value |-> Text_UPDATE_articles_tags_pull_if_exists,
                            name |-> Text_PULL_TAGS_IF_EXISTS_QUERY]>>

\* All eight generator functions have run on a model with a two-column
\* primary key, a collection field and a field that is not a collection.
C10_Witness ==
    /\ Len(genOut) = 8
    /\ Len(Cols) >= 1
    /\ Len(primary_key_fields(genIn.fields)) = 2
    /\ \E i \in 1..Len(genIn.fields) : ~genIn.fields[i].collection
    /\ Len(genOut[8]) = Len(Cols)

\* The DbSchema a finished call returned, and the condition that no other
\* client changed the catalog while the call ran.
Returned == sch.pc = "returned"
CatalogStable == Len(seen) = 1

NamesOfKind(cols, k) ==
    column_names(SelectSeq(cols, LAMBDA col : col.kind = k))

IndexPairs(idx, scope) ==
    LET sel == SelectSeq(idx, LAMBDA x : x.options.scope = scope)
    IN  [i \in 1..Len(sel) |-> <<sel[i].index_name, sel[i].options.target>>]

\* The schema object o describes the catalog's table t: the same columns
\* with their types, the key columns of each kind in the catalog's order and
\* every index under its scope.
DescribesTable(o, t) ==
    /\ Len(o.fields) = Len(t.columns)
    /\ {<<o.fields[i].name, o.fields[i].type>> : i \in 1..Len(o.fields)}
         = {<<t.columns[i].column_name, t.columns[i].type>> :
                i \in 1..Len(t.columns)}
    /\ o.partition_keys = NamesOfKind(t.columns, "partition_key")
    /\ o.clustering_keys = NamesOfKind(t.columns, "clustering")
    /\ o.global_secondary_indexes = IndexPairs(t.indexes, "global")
    /\ o.local_secondary_indexes = IndexPairs(t.indexes, "local")

\* C11: a DbSchema returned for a catalog that did not change during the call
\* holds, for every table the catalog lists, exactly the table's columns with
\* their types, its partition-key and its clustering columns in order, and
\* each index as (index name, target column) under global_secondary_indexes
\* or local_secondary_indexes by its scope; for t(pk1, pk2, ck1, col1) with a
\* global index on col1 that is [pk1, pk2], [ck1], four fields,
\* [(t_col1_idx, col1)] and [].
C11_TablesReconstructed ==
    (Returned /\ CatalogStable) =>
        /\ \A i \in 1..Len(catalog.tables) :
            /\ catalog.tables[i].table_name \in DOMAIN sch.current_schema.tables
            /\ DescribesTable(
                  sch.current_schema.tables[catalog.tables[i].table_name],
                  catalog.tables[i])
        /\ Has(catalog.tables, N_t) =>
            /\ sch.current_schema.tables[N_t].partition_keys = <<"pk1", "pk2">>
            /\ sch.current_schema.tables[N_t].clustering_keys = <<"ck1">>
            /\ Len(sch.current_schema.tables[N_t].fields) = 4
            /\ sch.current_schema.tables[N_t].global_secondary_indexes =
                   <<<<"t_col1_idx", "col1">>>>
            /\ sch.current_schema.tables[N_t].local_secondary_indexes = <<>>

\* A call returned on an unchanged catalog that lists table t with its global
\* index and table u with its local index.
C11_Witness ==
    /\ Returned
    /\ CatalogStable
    /\ catalog.tables = <<Rel_t, Rel_u>>
    /\ DOMAIN sch.current_schema.tables = {N_t, N_u}

\* C12: a catalog read that failed, in whichever phase, is the last read the
\* call issued, and the call ended in a panic: no DbSchema, not even the
\* partly populated one, was returned.
C12_FailedReadAborts ==
    \A i \in 1..Len(reads) :
        reads[i].reply = "Err" =>
            /\ i = Len(reads)
            /\ sch.pc = "panicked"
            /\ ~Returned

\* A read for the second table failed after the first table had been
\* populated.
C12_Witness ==
    /\ Len(reads) > 5
    /\ reads[Len(reads)].reply = "Err"
    /\ reads[Len(reads)].table_name = N_u
    /\ Len(sch.current_schema.tables[N_t].fields) = 4
    /\ sch.pc = "panicked"

NamesOf(rels) == {rels[i].table_name : i \in 1..Len(rels)}

\* The schema object o describes the row r of system_schema.types: the i-th
\* name with the i-th type for every index the two arrays share, nothing
\* static, no keys and no indexes.
DescribesType(o, r) ==
    /\ o.fields =
         [i \in 1..Min(Len(r.field_names), Len(r.field_types)) |->
             [type |-> r.field_types[i], name |-> r.field_names[i],
              is_static |-> FALSE]]
    /\ o.partition_keys = <<>>
    /\ o.clustering_keys = <<>>
    /\ o.global_secondary_indexes = <<>>
    /\ o.local_secondary_indexes = <<>>

\* The DbSchema d holds exactly the tables, types and views of catalog c.
Describes(d, c) ==
    /\ DOMAIN d.tables = NamesOf(c.tables)
    /\ \A i \in 1..Len(c.tables) :
          DescribesTable(d.tables[c.tables[i].table_name], c.tables[i])
    /\ DOMAIN d.udts = {to_lowercase(c.types[i].type_name) :
                            i \in 1..Len(c.types)}
    /\ \A i \in 1..Len(c.types) :
          DescribesType(d.udts[to_lowercase(c.types[i].type_name)],
                        c.types[i])
    /\ DOMAIN d.materialized_views = NamesOf(c.views)
    /\ \A i \in 1..Len(c.views) :
          DescribesTable(d.materialized_views[c.views[i].table_name],
                         c.views[i])

\* C13: the DbSchema a call returns is the catalog as it was at one instant
\* between the start and the return of the call, also when other clients
\* changed the catalog meanwhile.
C13_PointInTimeSnapshot ==
    Returned => \E i \in 1..Len(seen) : Describes(sch.current_schema, seen[i])

PipelineSteps == <<"before_execute", "query_value", "execute", "after_execute">>

CallsFrom(origin) == {i \in 1..Len(calls) : calls[i].origin = origin}

\* C14: an execute of a callback-wrapped mutation takes its steps in the
\* order before hook, query_value, session write, after hook (stopping at
\* the first that fails), and the values bound to the write are query_value
\* of the model as the before hook left it, never the empty binding the
\* builder was constructed with.
C14_PipelineOrderAndFreshValues ==
    [][(pc = "built" /\ builder.kind = "cb" /\ pc' = "done") =>
        /\ Len(steps') \in 1..4
        /\ [i \in 1..Len(steps') |-> steps'[i].step]
              = SubSeq(PipelineSteps, 1, Len(steps'))
        /\ builder.q.values = Empty
        /\ \A i \in QueryCalls' :
              /\ calls'[i].values = query_value(builder.cba, steps'[1].model)
              /\ calls'[i].values # Empty
        /\ (Len(steps') >= 3) = (QueryCalls' # {})
        /\ \A i \in CallsFrom("before_execute")', j \in QueryCalls' : i < j
        /\ \A i \in QueryCalls', j \in CallsFrom("after_execute")' : i < j
      ]_vars

\* All four steps were taken, both hooks used the session, and the write
\* carried the model with the payload the before hook gave it.
C14_Witness ==
    /\ CbDone
    /\ Len(steps) = 4
    /\ steps[1].model.payload = "p1"
    /\ \E i \in QueryCalls : calls[i].values = Model(steps[1].model)
    /\ CallsFrom("before_execute") # {}
    /\ CallsFrom("after_execute") # {}

\* The phase a catalog read belongs to: listings by their statement, the
\* reads about one relation by the listing that precedes them.
RECURSIVE PhaseOfRead(_)
PhaseOfRead(i) ==
    CASE reads[i].cql = "tables" -> 1
      [] reads[i].cql = "types" -> 2
      [] reads[i].cql = "views" -> 3
      [] OTHER -> IF i = 1 THEN 0 ELSE PhaseOfRead(i - 1)

TableReadsCql ==
    <<"columns", "columns kind = partition_key", "columns kind = clustering",
      "indexes">>

PerTable == Len(TableReadsCql)

\* The reads of the tables phase that follow the listing, in order.
TablePhaseReads ==
    SelectSeq(reads, LAMBDA r : r.table_name # <<>>
                                /\ \E i \in 1..Len(reads) :
                                      reads[i] = r /\ PhaseOfRead(i) = 1)

\* C15: the catalog reads of one call are strictly sequential: every read
\* but the last issued has been answered (at most one is outstanding), the
\* reads of the tables phase precede the read of the types phase, which
\* precedes those of the views phase, and in the tables phase the reads
\* come table by table, as columns, partition keys, clustering keys,
\* indexes of one table before any read for the next.
C15_ReadsSequential ==
    /\ \A i \in 1..Len(reads) : i < Len(reads) => reads[i].reply # "pending"
    /\ sch.awaiting = (reads # <<>> /\ reads[Len(reads)].reply = "pending")
    /\ \A i, j \in 1..Len(reads) : i < j => PhaseOfRead(i) <= PhaseOfRead(j)
    /\ \A i \in 1..Len(reads) : PhaseOfRead(i) \in 1..3
    /\ \A k \in 1..Len(TablePhaseReads) :
          /\ TablePhaseReads[k].cql = TableReadsCql[((k - 1) % PerTable) + 1]
          /\ (k - 1) % PerTable # 0 =>
                TablePhaseReads[k].table_name = TablePhaseReads[k - 1].table_name
          /\ \A l \in 1..(k - 1) :
                (k - 1) \div PerTable # (l - 1) \div PerTable =>
                    TablePhaseReads[l].table_name # TablePhaseReads[k].table_name

\* A call returned after reading two tables, the types and a view: eight
\* table reads between the listing of the tables and the read of the types.
C15_Witness ==
    /\ Returned
    /\ Len(TablePhaseReads) = 8
    /\ Len(reads) = 14
    /\ reads[10].cql = "types"
    /\ reads[11].cql = "views"

TypesAnswered ==
    \E i \in 1..Len(reads) : reads[i].cql = "types" /\ reads[i].reply = "Ok"

\* C16: once the rows of system_schema.types have been received, every row
\* (type_name, field_names, field_types), whatever the lengths of its two
\* arrays, is recorded under the lower-cased type name as an object whose
\* fields pair the i-th name with the i-th type for every index present in
\* both arrays, none static, with no keys and no indexes.
C16_UdtRowsZipped ==
    (TypesAnswered /\ CatalogStable) =>
        \A i \in 1..Len(catalog.types) :
            /\ to_lowercase(catalog.types[i].type_name)
                  \in DOMAIN sch.current_schema.udts
            /\ DescribesType(
                  sch.current_schema.udts[
                      to_lowercase(catalog.types[i].type_name)],
                  catalog.types[i])

\* The positions of the '?' placeholders of a query text, in order.
Placeholders(text) ==
    SelectSeq([i \in 1..Len(text) |-> i], LAMBDA i : text[i] = "?")

KeyCols == SelectSeq(genIn.fields, IsKey)

\* Method i of output k binds, for the constant at the same place of output
\* k - 4, one value per '?' of its text: the element first, then the value
\* of the primary-key column that the j-th further '?' is compared with.
BindsPlaceholders(k) ==
    Len(genOut) >= k =>
        \A i \in 1..Len(genOut[k]) :
            LET method == genOut[k][i]
                text == genOut[k - 4][i].value
                marks == Placeholders(text)
            IN  /\ method.qe = "ModelMutation"
                /\ method.query = S_Self \o genOut[k - 4][i].name
                /\ Len(method.bound) = Len(marks)
                /\ Len(method.bound) = 1 + Len(KeyCols)
                /\ method.bound[1] = <<"value">>
                /\ \A j \in 1..Len(KeyCols) :
                      /\ method.bound[j + 1] = <<"self", KeyCols[j].name>>
                      /\ SubSeq(text,
                                marks[j + 1] - 3 - Len(KeyCols[j].name),
                                marks[j + 1] - 1)
                            = KeyCols[j].name \o <<" ", "=", " ">>

\* C17: each generated push_<f>, push_<f>_if_exists, pull_<f> and
\* pull_<f>_if_exists method builds a ModelMutation query over the matching
\* generated constant and binds (element, primary-key values in key order):
\* as many values as the text has '?' placeholders, in the placeholders'
\* order.
C17_MethodsBindPlaceholders ==
    /\ BindsPlaceholders(5)
    /\ BindsPlaceholders(6)
    /\ BindsPlaceholders(7)
    /\ BindsPlaceholders(8)

\* All four method generators ran on a model with a collection field and a
\* primary key of two columns.
C17_Witness ==
    /\ Len(genOut) = 8
    /\ Len(KeyCols) = 2
    /\ Len(genOut[5]) >= 1
    /\ Len(genOut[8]) >= 1
    /\ Len(genOut[8][1].bound) = 3

StepNames == [i \in 1..Len(steps) |-> steps[i].step]

\* C18: when the before hook succeeded and the session write failed, the
\* after hook is not invoked, the write is issued once and not again, and
\* the caller receives the error made from the query failure; an
\* after_execute step is taken only after a successful write, and at most
\* once.
C18_WriteFailureSkipsAfterHook ==
    CbDone =>
        /\ (Len(steps) >= 3 /\ steps[1].ok /\ ~steps[3].ok) =>
              /\ \A i \in 1..Len(steps) : steps[i].step # "after_execute"
              /\ CallsFrom("after_execute") = {}
              /\ Cardinality(QueryCalls) = 1
              /\ \A i \in QueryCalls : calls[i].reply.tag = "err"
              /\ result.tag = "Err"
              /\ result.kind = "QueryError"
              /\ result.type = "M::Error"
        /\ \A i \in 1..Len(steps) :
              steps[i].step = "after_execute" =>
                  /\ i = Len(steps)
                  /\ i > 1
                  /\ steps[i - 1].step = "execute"
                  /\ steps[i - 1].ok
                  /\ \A j \in QueryCalls : calls[j].reply.tag = "ok"
        /\ Cardinality({i \in 1..Len(steps) :
                            steps[i].step = "after_execute"}) <= 1

\* The before hook succeeded, using the session, and the write failed.
C18_Witness ==
    /\ CbDone
    /\ Len(steps) = 3
    /\ steps[1].ok
    /\ steps[3].step = "execute"
    /\ ~steps[3].ok
    /\ CallsFrom("before_execute") # {}
    /\ result.kind = "QueryError"

\* The step changes the builder by a setter other than paging_state.
OtherSetter ==
    \/ \E n \in PageSizes : Configure("page_size", page_size(builder.q, n))
    \/ \E c \in Consistencies :
          Configure("consistency", consistency(builder.q, c))
    \/ \E c \in SerialConsistencies :
          Configure("serial_consistency", serial_consistency(builder.q, c))
    \/ \E b \in BOOLEAN : Configure("idempotent", idempotent(builder.q, b))
    \/ \E b \in BOOLEAN : Configure("trace", trace(builder.q, b))
    \/ \E t \in Timestamps : Configure("timestamp", timestamp(builder.q, t))
    \/ \E t \in Timeouts : Configure("timeout", timeout(builder.q, t))
    \/ \E r \in RetryPolicies :
          Configure("retry_policy", retry_policy(builder.q, r))
    \/ \E h \in HistoryListeners :
          Configure("history_listener", history_listener(builder.q, h))
    \/ Configure("remove_history_listener", remove_history_listener(builder.q))
    \/ \E p \in ProfileHandles :
          Configure("profile_handle", profile_handle(builder.q, p))

\* C19: the cursor a paged execution sends is the one last set on the
\* builder: find_paged builds with the cursor supplied, every other
\* constructor (find_by_partition_key_value_paged too) with the start
\* cursor, paging_state(ps) sets ps, no other setter changes the cursor, and
\* the execute of a ModelPaged builder sends the cursor the builder holds.
C19_CursorSentIsLastSet ==
    [][/\ \A query \in Queries, v \in UserValues, ps \in PagingStates :
            Construct(QueryBuilder(find_paged(query, v, ps))) =>
                builder'.q.paging_state = ps
       /\ (/\ pc = "start"
           /\ pc' = "built"
           /\ ~\E query \in Queries, v \in UserValues :
                 builder' = QueryBuilder(
                                find_paged(query, v, builder'.q.paging_state)))
            => builder'.q.paging_state = PagingState_start
       /\ \A v \in PartitionKeys :
            Construct(QueryBuilder(find_by_partition_key_value_paged(v))) =>
                builder'.q.paging_state = PagingState_start
       /\ \A ps \in PagingStates :
            Configure("paging_state", paging_state(builder.q, ps)) =>
                builder'.q.paging_state = ps
       /\ OtherSetter => builder'.q.paging_state = builder.q.paging_state
       /\ (/\ pc = "built"
           /\ builder.kind = "query"
           /\ builder.q.qe = "ModelPaged"
           /\ pc' = "done")
            => /\ Len(calls') = Len(calls) + 1
               /\ calls'[Len(calls')].method = "execute_single_page"
               /\ calls'[Len(calls')].paging_state = builder.q.paging_state
      ]_vars

\* A paged execution of the partition-key query sent a resume cursor.
C19_Witness ==
    /\ PlainDone
    /\ result.qe = "ModelPaged"
    /\ Len(calls) = 1
    /\ calls[1].statement.contents = FIND_BY_PARTITION_KEY_QUERY
    /\ calls[1].paging_state = PagingToken(1)

====
